---------------------------- MODULE Spec2Model ----------------------------
(***************************************************************************)
(* Poseidon and Rescue-Prime permutation circuits (src/src/main.rs).       *)
(*                                                                         *)
(* The model follows the row-by-row witness generators of the two chips,   *)
(* the gates attached by their configure functions, and the pipeline of    *)
(* main (configure, synthesize, expose_as_public, MockProver::verify).     *)
(*                                                                         *)
(* The chips are generic over the field.  The program runs over the        *)
(* BLS12-381 scalar field Fr, and SpecFr runs the circuits of main over    *)
(* it.  The other specifications run them over the prime field of order P, *)
(* which keeps the two number-theoretic facts the code relies on (5 is     *)
(* invertible modulo p-1, 3 divides p-1); a literal of the source is       *)
(* parsed into the field in use.                                           *)
(***************************************************************************)
EXTENDS Integers, Sequences, FiniteSets, TLC

\* ------------------------------------------------------------------------
\* Bounds of the model
\* ------------------------------------------------------------------------
\* initial state words are drawn from 0 .. MaxInput (main uses 0, 1, 2)
MaxInput == 2
\* Poseidon specifications with full_rounds in 0 .. MaxFullRounds
MaxFullRounds == 3
\* Poseidon specifications with partial_rounds in 0 .. MaxPartialRounds
MaxPartialRounds == 2
\* Rescue-Prime specifications with rounds in 0 .. MaxRounds
MaxRounds == 5
\* round counts at most MaxRoundShift away from those of the two configure
\* functions (8 / 57 and 4)
MaxRoundShift == 1
\* round counts of the two circuits that are run side by side
MaxPairRounds == 1
\* Rescue-Prime rounds run on initial states that range over the field
MaxSboxRounds == 1

\* ------------------------------------------------------------------------
\* State
\* ------------------------------------------------------------------------
VARIABLES
  kind,          \* "poseidon" or "rescue": which circuit runs
  params,        \* permutation_params of the chip configuration
  input,         \* s0, s1, s2 of the circuit struct
  pc,            \* position in the pipeline of main
  i,             \* loop counter of the current for loop
  step,          \* position inside the current round
  offset,        \* row index for computations on state
  constant_idx,  \* index into the Poseidon round constants
  state,         \* the three cell handles: lane l is the advice cell (l, state[l])
  advice,        \* advice columns: advice[r + 1][l] is the cell of lane l on row r
  fixed,         \* fixed columns: row -> the three constants assigned on it
  sel,           \* row -> the selectors enabled on it
  gates,         \* gates attached to the constraint system
  equality,      \* copy constraints: pairs of cells
  result,        \* the handles returned by permute
  instance,      \* the expected public values handed to MockProver
  verdict,       \* outcome of MockProver::verify
  deviation,     \* what a dishonest prover changed in the trace, if anything
  other          \* the runs put aside: those that finished alone (done) and
                 \* the pipeline that is suspended (susp)

vars == <<kind, params, input, pc, i, step, offset, constant_idx, state, advice,
          fixed, sel, gates, equality, result, instance, verdict, deviation, other>>

\* ------------------------------------------------------------------------
\* Field arithmetic
\* ------------------------------------------------------------------------
\* order of the reduced prime field
P == 19
F == 0 .. (P - 1)

\* Value::unknown(): the placeholder of a run without witnesses
Unknown == -1
\* Option::None returned by a failed parse
None == -2

\* The scalar field of BLS12-381 (halo2curves::bls12381::Fr): an element is
\* the sequence of its base-10000 digits, least significant first
LimbBase == 10000
NLimbs == 20
\* added to a column sum before it is split, so that it is never negative
CarryPad == 30000

\* p of the header comment, in hexadecimal digits
ModulusHex ==
  << 7,3,14,13,10,7,5,3, 2,9,9,13,7,13,4,8, 3,3,3,9,13,8,0,8, 0,9,10,1,13,8,0,5,
     5,3,11,13,10,4,0,2, 15,15,15,14,5,11,15,14, 15,15,15,15,15,15,15,15, 0,0,0,0,0,0,0,1 >>

BigZero == [j \in 1 .. NLimbs |-> 0]

\* F::from(n) for a small n
BigFrom(n) == [j \in 1 .. NLimbs |-> IF j = 1 THEN n ELSE 0]

\* carry propagation over the columns w[j .. Len(w)], carry c coming in
RECURSIVE Carry(_, _, _, _)
Carry(w, j, c, out) ==
  IF j > Len(w) THEN out
  ELSE LET t == w[j] + c + CarryPad * LimbBase
       IN  CHOOSE r \in { Carry(w, j + 1, cc, oo) :
                            cc \in {(t \div LimbBase) - CarryPad},
                            oo \in {Append(out, t % LimbBase)} } : TRUE

\* the digits of the number whose columns are w
Normalize(w) == Carry(w, 1, 0, <<>>)

\* the steps a .. b of an iteration, split in halves
RECURSIVE HexRange(_, _, _, _)
HexRange(h, a, b, acc) ==
  IF a > b THEN acc
  ELSE IF a = b
  THEN Normalize([j \in 1 .. NLimbs |-> 16 * acc[j] + (IF j = 1 THEN h[a] ELSE 0)])
  ELSE CHOOSE r \in { HexRange(h, (a + b) \div 2 + 1, b, m) :
                        m \in {HexRange(h, a, (a + b) \div 2, acc)} } : TRUE

Modulus == HexRange(ModulusHex, 1, Len(ModulusHex), BigZero)

\* the two leading digits of the modulus
ModulusTop == Modulus[NLimbs] * LimbBase + Modulus[NLimbs - 1]

\* a >= b, both of the same length
RECURSIVE GeqFrom(_, _, _)
GeqFrom(a, b, j) ==
  IF j = 0 THEN TRUE
  ELSE IF a[j] # b[j] THEN a[j] > b[j]
  ELSE GeqFrom(a, b, j - 1)

BigGeq(a, b) == GeqFrom(a, b, Len(a))

\* a - b for a >= b
BigSubRaw(a, b) == Normalize([j \in 1 .. NLimbs |-> a[j] - b[j]])

CondSub(a) == IF BigGeq(a, Modulus) THEN BigSubRaw(a, Modulus) ELSE a

\* the residue of the number whose NLimbs + 1 columns are w (none negative,
\* the number below 20000 times the modulus): a quotient estimated from
\* the leading columns is at most one short
BigReduce(w) ==
  CHOOSE out \in
    { CondSub(CondSub(SubSeq(r, 1, NLimbs))) :
        r \in { Normalize([j \in 1 .. NLimbs + 1 |->
                             IF j <= NLimbs THEN w[j] - q * Modulus[j] ELSE w[j]]) :
                  q \in { (w[NLimbs + 1] * LimbBase * LimbBase + w[NLimbs] * LimbBase
                             + w[NLimbs - 1]) \div (ModulusTop + 1) } } } : TRUE

BigAdd(a, b) ==
  CHOOSE out \in
    { BigReduce([j \in 1 .. NLimbs + 1 |-> IF j <= NLimbs THEN x[j] + y[j] ELSE 0]) :
        x \in {a}, y \in {b} } : TRUE

BigNeg(a) == IF a = BigZero THEN a ELSE BigSubRaw(Modulus, a)

BigSub(a, b) == CHOOSE out \in { BigAdd(a, y) : y \in { BigNeg(x) : x \in {b} } } : TRUE

\* a * b: Horner over the digits of b, from the leading one
RECURSIVE MulFrom(_, _, _, _)
MulFrom(a, b, k, acc) ==
  IF k = 0 THEN acc
  ELSE CHOOSE r \in
         { MulFrom(a, b, k - 1, nxt) :
             nxt \in { BigReduce([j \in 1 .. NLimbs + 1 |->
                                    (IF j >= 2 THEN acc[j - 1] ELSE 0)
                                      + (IF j <= NLimbs THEN a[j] * b[k] ELSE 0)]) } } : TRUE

BigMul(a, b) == CHOOSE out \in { MulFrom(x, y, NLimbs, BigZero) : x \in {a}, y \in {b} } : TRUE

\* decimal digits s[a .. b] appended to the number acc, modulo the modulus
RECURSIVE DecRange(_, _, _, _)
DecRange(s, a, b, acc) ==
  IF a > b THEN acc
  ELSE IF a = b
  THEN BigReduce([j \in 1 .. NLimbs + 1 |->
                    IF j <= NLimbs THEN 10 * acc[j] + (IF j = 1 THEN s[a] ELSE 0) ELSE 0])
  ELSE CHOOSE r \in { DecRange(s, (a + b) \div 2 + 1, b, m) :
                        m \in {DecRange(s, a, (a + b) \div 2, acc)} } : TRUE

\* BigUint::from_str: the digits of the literal, not reduced
RECURSIVE UintRange(_, _, _, _)
UintRange(s, a, b, acc) ==
  IF a > b THEN acc
  ELSE IF a = b
  THEN Normalize([j \in 1 .. NLimbs |-> 10 * acc[j] + (IF j = 1 THEN s[a] ELSE 0)])
  ELSE CHOOSE r \in { UintRange(s, (a + b) \div 2 + 1, b, m) :
                        m \in {UintRange(s, a, (a + b) \div 2, acc)} } : TRUE

BigUintFromStr(s) == UintRange(s, 1, Len(s), BigZero)

\* e / 2 on the digits, from the leading digit down
RECURSIVE HalfFrom(_, _, _, _)
HalfFrom(e, j, rem, out) ==
  IF j = 0 THEN out
  ELSE LET t == rem * LimbBase + e[j]
       IN  CHOOSE r \in { HalfFrom(e, j - 1, rr, oo) :
                            rr \in {t % 2}, oo \in {<<t \div 2>> \o out} } : TRUE

BigHalf(e) == HalfFrom(e, Len(e), 0, <<>>)

\* the bits of e, least significant first: n halvings, split in halves
RECURSIVE BitsRange(_, _, _)
BitsRange(st, a, b) ==
  IF a > b THEN st
  ELSE IF a = b
  THEN [e |-> BigHalf(st.e), bits |-> Append(st.bits, st.e[1] % 2)]
  ELSE CHOOSE r \in { BitsRange(m, (a + b) \div 2 + 1, b) :
                        m \in {BitsRange(st, a, (a + b) \div 2)} } : TRUE

\* 4 u64 digits
ExponentBits == 256

BigBits(e) == BitsRange([e |-> e, bits |-> <<>>], 1, ExponentBits).bits

\* Field::pow_vartime: for the bits from the leading one, res = res.square()
\* and, if the bit is set, res *= self
RECURSIVE PowRange(_, _, _, _, _)
PowRange(v, bits, a, b, res) ==
  IF a < b THEN res
  ELSE IF a = b
  THEN CHOOSE out \in { IF bits[a] = 1 THEN BigMul(sq, v) ELSE sq :
                          sq \in {BigMul(res, res)} } : TRUE
  ELSE CHOOSE r \in { PowRange(v, bits, (a + b) \div 2, b, m) :
                        m \in {PowRange(v, bits, a, (a + b) \div 2 + 1, res)} } : TRUE

BigPowVartime(v, e) ==
  CHOOSE out \in { PowRange(x, bits, Len(bits), 1, BigFrom(1)) :
                     x \in {v}, bits \in {BigBits(e)} } : TRUE

\* the placeholder and the failed parse among the elements of Fr
UnknownFr == <<Unknown>>
NoneFr == <<None>>

\* the circuits are generic over F: PrimeField; params.field names the field
\* a chip is instantiated over, "F19" (order P) or "Fr"
OverFr == params.field = "Fr"

FieldUnknown == IF OverFr THEN UnknownFr ELSE Unknown
FieldNone == IF OverFr THEN NoneFr ELSE None
\* F::ZERO, F::ONE
FieldZero == IF OverFr THEN BigZero ELSE 0
FieldOne == IF OverFr THEN BigFrom(1) ELSE 1

FAdd(a, b) == IF OverFr THEN BigAdd(a, b) ELSE (a + b) % P
FMul(a, b) == IF OverFr THEN BigMul(a, b) ELSE (a * b) % P
FSub(a, b) == IF OverFr THEN BigSub(a, b) ELSE (a + P - b) % P

\* Value<F>::map : an unknown value stays unknown
VAdd(v, c) == IF v = FieldUnknown THEN FieldUnknown ELSE FAdd(v, c)

\* pow5 without the last multiplication
pow5_fourth(a) ==
  LET temp == FMul(a, a)
  IN  FMul(temp, temp)

\* helper closure pow5: a^2, a^4, a * a^4
pow5(a) ==
  CHOOSE out \in { FMul(a, temp_1) :
                     temp_1 \in { FMul(temp, temp) : temp \in {FMul(a, a)} } } : TRUE

VPow5(v) == IF v = FieldUnknown THEN FieldUnknown ELSE pow5(v)

\* Field::pow_vartime: square-and-multiply over the bits of the exponent,
\* most significant bit first
RECURSIVE pow_vartime(_, _)
pow_vartime(v, e) ==
  IF OverFr THEN BigPowVartime(v, e)
  ELSE IF e = 0 THEN 1
  ELSE LET h  == pow_vartime(v, e \div 2)
           sq == FMul(h, h)
       IN  IF e % 2 = 1 THEN FMul(sq, v) ELSE sq

\* the inverse S-box row filled with the forward power
VPowVartime_forward(v, e) == IF v = FieldUnknown THEN FieldUnknown ELSE pow5(v)

\* state[l].value().map(|v| v.pow_vartime(&alpha_inv_vec))
VPowVartime(v, e) == IF v = FieldUnknown THEN FieldUnknown ELSE pow_vartime(v, e)

\* ------------------------------------------------------------------------
\* Literals: a decimal literal is the sequence of its characters, a digit
\* being the number 0 .. 9 and any other character a number outside 0 .. 9
\* ------------------------------------------------------------------------
\* Poseidon round constants (195 literals)
ROUND_CONSTANTS_PS ==
  <<
    <<4,8,9,9,1,0,9,7,0,8,1,7,3,2,2,7,5,4,6,8,8,4,5,3,1,4,1,6,8,0,2,1,4,2,0,5,6,5,4,9,7,2,9,7,7,7,5,9,8,8,8,2,3,2,3,4,1,1,3,4,0,6,4,0,3,0,9,5,1,1,8,8,0,9,2,1,6>>,
    <<3,8,3,8,5,6,6,0,0,2,9,6,1,8,1,6,5,2,8,5,8,4,8,6,9,8,8,5,7,6,3,5,2,1,5,1,4,3,1,3,5,9,7,6,5,1,1,8,5,6,4,0,2,1,8,2,1,4,2,7,5,7,6,8,0,7,8,7,9,7,9,2,9,6,1,5,4>>,
    <<4,5,6,6,4,9,1,7,7,8,8,6,3,4,0,5,6,1,6,0,9,4,7,2,3,1,1,8,2,8,0,3,0,8,9,1,6,9,5,7,0,7,4,6,6,5,7,2,1,9,0,7,4,3,7,0,4,8,2,4,0,9,2,0,0,0,4,2,9,9,1,9,2,1,2,4,6>>,
    <<4,6,6,1,1,8,2,3,4,6,7,2,1,9,9,1,0,3,3,3,3,4,9,4,3,3,9,7,8,9,9,1,0,3,1,4,4,3,9,4,5,6,9,7,1,2,8,4,3,5,2,7,9,7,5,5,9,0,8,2,5,8,8,9,6,0,9,0,1,9,6,6,7,6,8,2,8>>,
    <<2,1,2,3,9,5,5,5,8,0,0,3,9,1,9,8,3,3,3,6,6,7,3,0,1,6,2,3,2,2,5,2,5,7,7,1,4,5,9,7,9,3,0,4,5,9,7,1,0,2,5,0,2,2,9,2,7,8,5,5,5,7,0,2,4,1,7,7,1,5,5,1,1,5,3,1,9>>,
    <<5,4,4,4,5,4,9,8,1,4,0,0,2,2,5,2,7,1,8,6,9,9,3,6,1,5,4,8,6,4,2,5,4,6,8,7,4,4,1,7,2,2,0,8,2,6,4,9,5,4,9,6,5,5,2,2,9,0,4,1,7,0,9,4,1,9,1,4,9,4,2,9,9,7,9,7>>,
    <<6,1,2,0,9,4,1,8,1,7,7,8,0,2,2,8,5,9,4,8,5,1,1,8,5,6,2,5,6,6,2,3,5,4,1,5,4,1,2,6,3,1,5,0,3,2,5,3,8,2,4,7,0,3,3,9,6,8,1,9,8,4,9,8,9,1,1,7,9,1,6,5,1,9,7,0>>,
    <<2,3,2,6,8,9,3,4,5,4,1,5,6,5,4,8,3,1,1,2,4,8,8,3,1,4,2,3,9,2,8,2,4,3,9,2,4,4,7,5,7,3,4,6,3,0,3,4,8,4,5,3,7,5,4,9,2,0,9,0,0,2,6,0,5,2,1,8,9,1,3,2,3,6,5,3,6>>,
    <<3,4,7,7,8,9,0,0,5,6,1,7,1,6,0,4,7,7,3,0,3,8,6,1,1,0,4,9,9,0,5,8,1,3,6,1,2,2,5,9,7,6,6,9,7,7,5,0,5,1,0,6,1,6,0,3,7,1,1,7,2,4,6,8,8,2,0,3,3,7,4,9,8,4,7,3,1>>,
    <<1,1,8,6,6,4,1,2,9,5,8,8,3,1,6,2,0,8,8,7,9,5,3,8,6,0,2,0,4,7,9,5,8,7,8,8,9,4,5,4,5,6,1,8,2,1,2,7,0,9,3,3,1,0,2,3,6,1,1,0,1,9,0,1,1,7,9,3,4,4,7,4,8,8,1,7,6>>,
    <<1,2,9,2,8,1,0,5,5,3,9,5,5,0,8,1,0,8,9,1,3,9,1,0,3,0,3,3,8,2,1,1,6,3,1,7,6,6,1,4,8,1,7,8,0,8,0,1,8,7,6,2,6,9,4,2,3,2,6,9,3,3,5,7,4,0,5,1,3,5,3,4,0,2,1,3>>,
    <<2,9,8,2,9,4,4,0,1,4,9,0,7,4,9,4,0,8,2,0,6,7,1,5,5,9,8,2,4,8,7,2,9,3,7,9,8,0,7,6,3,7,4,8,9,2,7,4,9,1,2,3,8,6,1,4,0,6,5,1,3,8,1,4,2,8,3,5,3,1,8,4,5,3,6,7,1>>,
    <<4,3,0,0,7,3,2,5,2,7,8,3,1,2,9,8,0,6,6,3,9,8,2,4,5,2,1,0,6,9,4,6,2,2,6,8,4,4,9,6,4,6,2,2,3,8,4,0,1,7,7,0,0,8,3,8,8,5,5,2,9,7,3,7,9,6,7,7,0,4,7,1,1,3,3,8,4>>,
    <<6,2,0,7,8,5,2,5,5,9,8,4,7,9,4,6,3,0,0,6,6,7,8,3,6,8,2,9,7,9,8,9,5,1,8,4,8,3,6,1,5,8,1,0,8,4,4,3,3,5,2,5,0,9,8,5,9,7,8,5,7,8,9,9,5,3,6,6,5,7,1,5,7,1,3,2>>,
    <<5,1,2,6,3,8,4,4,8,5,4,4,1,9,2,0,7,5,6,0,5,1,4,4,7,5,8,6,3,1,2,0,6,8,3,7,7,2,5,3,2,9,2,9,8,5,0,6,2,9,5,4,6,9,9,2,6,9,0,5,1,0,8,8,4,2,2,1,3,6,4,9,9,0,2,5,3>>,
    <<4,7,5,3,7,2,0,7,4,8,5,0,6,5,0,3,1,9,7,6,3,7,4,4,6,9,9,6,7,6,9,6,1,3,4,7,7,2,5,7,4,8,3,4,3,1,3,5,6,8,0,2,6,8,2,3,9,8,3,9,1,8,7,8,0,3,0,8,5,1,8,3,9,4,0,4,0>>,
    <<2,2,2,1,9,3,1,7,9,1,8,9,9,3,0,3,9,6,0,2,3,9,1,4,9,7,0,2,1,7,1,6,8,2,6,4,9,7,7,3,2,6,2,4,4,9,1,9,6,1,4,0,7,8,7,8,3,8,3,6,2,7,5,3,7,0,6,5,7,9,1,0,4,5,9,2>>,
    <<3,9,4,5,6,8,3,9,0,8,6,0,1,7,0,3,7,1,4,1,2,9,5,8,6,3,0,8,0,1,2,8,6,9,3,7,1,4,7,0,5,8,3,5,1,2,5,9,2,2,4,4,8,1,9,8,8,0,2,0,6,2,1,8,0,5,7,7,6,1,9,4,1,5,6,8,8>>,
    <<7,3,0,7,6,8,4,1,9,2,2,3,5,5,3,7,9,6,5,8,3,1,3,7,6,3,1,1,4,1,7,8,8,3,5,1,3,7,9,6,5,3,5,7,0,1,2,4,4,0,9,6,1,7,8,7,8,5,2,1,8,5,3,0,8,3,9,4,0,9,0,5,6,5,2,3>>,
    <<4,0,3,6,3,7,9,0,8,4,7,2,2,3,8,7,2,2,5,5,9,9,5,8,6,0,1,4,4,0,3,7,8,9,4,4,0,0,1,5,8,8,7,9,3,2,6,8,1,8,3,2,2,7,9,0,2,5,5,7,8,7,8,8,4,0,3,7,9,9,0,4,8,0,5,2,7>>,
    <<4,6,3,7,0,9,7,7,8,6,5,3,2,9,5,1,1,2,6,7,9,5,6,8,4,2,9,3,0,0,5,7,9,5,9,4,4,6,2,2,1,5,2,4,0,6,0,1,4,5,7,3,8,2,1,0,6,8,0,2,4,5,5,3,0,9,5,4,5,4,9,9,4,5,0,1,5>>,
    <<3,1,9,6,3,3,7,5,4,5,6,0,6,2,6,0,4,7,0,4,5,1,1,7,6,2,9,4,0,4,2,1,3,2,9,7,5,6,2,1,2,7,6,6,4,4,2,4,5,2,5,5,5,5,2,9,1,0,1,2,4,1,3,3,9,6,7,4,7,8,2,3,3,4,0,3,9>>,
    <<1,4,9,3,1,0,3,5,9,9,4,9,9,9,6,6,9,3,5,3,0,7,3,3,0,7,0,8,8,5,2,1,6,7,0,9,8,1,1,2,2,3,7,4,6,4,8,9,2,7,5,8,1,5,1,6,9,9,0,6,1,5,8,2,5,3,1,4,4,6,2,8,2,7,8,9,7>>,
    <<9,1,4,6,0,5,0,3,1,4,7,4,1,2,2,5,6,2,2,4,3,7,9,0,7,7,0,0,5,9,4,1,0,5,4,8,1,6,2,3,6,2,3,0,8,7,6,3,5,6,9,5,8,9,7,8,6,8,7,9,2,7,2,1,1,4,7,7,0,0,5,4,1,6,2,3>>,
    <<4,3,0,2,8,8,6,6,5,2,3,3,2,8,0,0,4,7,7,0,1,7,2,3,2,2,3,8,4,2,3,5,8,1,5,4,9,2,6,9,4,5,7,3,2,4,8,3,6,8,6,0,1,7,3,7,1,5,5,4,6,8,8,4,3,5,2,5,6,2,5,4,1,3,2,7,9>>,
    <<1,0,6,4,2,7,7,1,8,1,3,4,6,6,0,8,7,7,9,9,6,8,1,4,7,6,7,0,9,2,9,5,3,6,2,9,9,6,8,8,6,3,6,1,9,3,4,7,3,3,2,7,0,3,3,3,7,2,8,3,5,8,6,7,5,2,6,7,5,2,1,4,4,2,1,8,4>>,
    <<2,6,2,0,4,6,2,6,4,7,2,1,8,2,2,4,7,5,8,6,4,4,6,7,5,3,3,5,7,6,0,3,2,3,2,2,2,6,2,3,5,5,7,0,9,4,0,6,8,6,2,9,5,3,1,7,6,6,1,1,9,1,5,8,3,4,0,9,5,3,2,5,2,3,5,7,8>>,
    <<5,1,7,6,4,7,7,8,3,0,5,8,4,2,1,8,2,5,4,4,3,4,1,5,0,7,1,2,7,3,2,8,3,3,3,3,9,7,6,8,2,0,1,8,9,8,4,5,3,6,7,6,2,5,1,7,1,4,4,1,4,4,4,9,5,8,3,0,2,5,4,7,2,7,6,9,2>>,
    <<4,6,3,2,3,0,1,3,7,9,8,9,9,7,0,8,1,8,1,1,9,5,9,7,0,7,0,4,7,8,0,8,1,4,9,0,0,3,1,6,6,6,1,9,1,3,3,4,6,4,4,5,0,1,2,7,9,8,9,6,9,1,2,7,7,7,7,5,1,8,3,4,0,4,3,4,9>>,
    <<5,4,8,2,7,1,4,7,6,1,7,7,9,4,0,3,1,9,7,3,3,6,6,0,5,3,6,7,6,9,7,0,0,0,5,2,9,5,1,3,2,8,9,8,2,3,5,8,3,0,2,7,7,3,9,4,5,8,0,6,9,3,9,7,6,8,4,4,0,8,6,8,7,7,1,7>>,
    <<1,2,8,0,1,2,5,9,9,4,3,8,3,0,5,8,2,8,2,6,7,1,8,9,0,1,6,3,2,3,5,7,1,1,2,3,6,8,2,5,6,6,3,2,7,8,3,4,2,2,4,4,9,8,2,4,8,8,9,8,5,8,5,5,1,9,3,7,3,2,6,4,0,1,1,7,0>>,
    <<2,4,7,0,5,2,2,1,3,7,0,0,2,8,0,6,1,1,7,7,4,1,0,6,7,0,9,3,6,4,8,7,4,6,1,7,1,1,7,3,5,9,9,4,6,3,5,9,8,8,9,3,6,0,7,0,6,2,3,3,5,1,7,9,9,6,7,5,1,1,7,5,9,4,8,5,0>>,
    <<3,4,8,1,8,3,5,4,0,6,8,7,7,7,3,3,9,8,9,1,0,9,1,7,1,4,8,7,7,6,8,1,8,9,8,5,4,8,3,5,2,6,5,0,3,3,7,2,4,0,4,8,1,5,3,9,5,6,7,3,7,3,8,8,8,9,8,1,6,5,9,3,0,8,0,9,9>>,
    <<3,5,4,3,7,9,8,1,5,1,1,7,6,5,4,6,2,7,4,2,6,0,5,2,3,4,8,0,3,3,7,6,7,7,2,6,8,2,8,4,0,6,6,4,2,0,4,8,2,1,3,0,1,7,6,4,0,8,4,7,3,8,5,7,3,7,7,4,6,1,6,2,1,5,1,0,9>>,
    <<1,4,3,3,5,2,3,9,1,8,1,9,4,5,2,1,0,2,1,7,3,1,5,5,6,4,5,7,5,1,6,8,3,2,4,6,5,8,1,9,7,5,7,1,8,7,6,3,5,6,4,5,9,3,5,5,1,8,2,7,7,7,2,0,3,1,9,2,4,9,8,8,9,4,4,5>>,
    <<1,7,8,6,4,4,4,8,2,5,3,1,1,9,6,8,5,7,2,3,5,2,0,0,2,1,1,6,0,5,4,1,8,8,7,6,2,9,7,1,2,2,5,3,8,3,1,2,8,3,1,3,2,0,6,7,0,2,2,0,3,8,0,5,2,5,7,5,2,3,6,9,3,8,8,8>>,
    <<2,2,2,3,2,0,7,3,0,7,6,7,9,6,6,2,2,5,5,0,4,9,4,0,5,0,9,1,0,2,0,9,9,8,8,4,5,4,5,9,6,4,3,3,1,7,4,2,0,6,8,7,4,6,9,6,3,6,2,0,3,7,7,0,0,5,1,4,0,8,2,4,9,2,2,7,6>>,
    <<2,4,0,4,2,4,3,0,1,0,9,2,3,5,9,2,2,6,1,1,0,2,7,9,6,8,8,3,1,6,5,7,3,2,5,5,2,0,0,7,2,5,5,3,6,4,1,4,7,3,3,2,1,7,8,4,5,0,8,6,9,8,7,2,0,8,5,4,1,8,0,6,5,8,0,3,1>>,
    <<4,5,4,0,6,8,0,5,5,6,7,3,9,8,6,8,0,9,2,1,0,6,5,4,5,2,9,2,3,2,7,6,0,5,5,1,6,6,9,6,1,5,8,8,1,5,3,6,6,0,2,6,1,5,2,0,5,2,9,1,9,6,0,4,0,9,1,3,4,8,7,9,1,6,2,7,9>>,
    <<3,5,0,5,3,2,6,2,8,6,1,0,4,8,8,2,5,4,1,1,0,6,1,2,8,0,5,5,9,5,5,3,8,9,5,5,3,6,1,9,2,3,3,4,8,3,0,7,6,3,0,6,2,4,7,7,2,7,7,2,3,5,8,0,7,5,1,5,9,5,9,3,8,3,1,5,0>>,
    <<2,5,1,0,8,9,6,4,8,0,3,1,8,8,8,0,0,7,3,7,4,3,7,3,9,4,2,4,6,4,4,2,0,7,3,8,5,8,2,6,1,7,4,0,1,4,6,1,8,1,0,9,5,5,5,0,9,8,8,1,1,1,8,5,6,2,3,8,9,5,4,4,9,0,3,0,9>>,
    <<3,5,1,9,2,6,5,0,1,4,1,1,3,7,1,0,6,0,5,8,5,7,7,4,1,8,5,1,4,2,0,9,0,9,2,9,0,4,2,1,4,7,6,2,4,3,7,9,1,0,4,3,4,9,6,7,5,4,0,3,3,6,8,0,0,6,5,0,6,2,0,0,4,1,9,5,8>>,
    <<3,4,2,2,0,9,4,4,7,9,4,6,1,9,6,6,2,7,8,2,5,8,9,7,9,2,8,0,9,9,3,8,2,1,5,0,7,8,9,8,0,5,3,3,6,5,7,2,6,9,2,0,0,9,3,3,4,8,2,0,1,4,7,6,3,8,3,6,2,5,4,2,1,0,8,8,0>>,
    <<3,9,8,8,4,3,9,3,7,9,2,2,4,2,1,3,2,0,7,5,2,5,8,6,0,2,0,7,0,5,4,1,1,1,4,5,5,7,2,7,2,2,7,8,5,7,1,0,3,3,9,7,4,1,5,8,7,5,5,3,0,7,7,1,7,9,3,0,0,3,3,8,0,8,0,7,8>>,
    <<6,5,2,8,6,2,7,5,6,7,2,4,6,1,3,8,8,9,8,3,3,8,1,3,5,4,7,1,5,8,4,6,6,5,8,6,0,4,0,3,0,2,4,8,6,4,1,2,5,8,4,6,3,5,3,7,5,8,0,5,4,5,8,8,5,5,4,0,4,9,3,6,5,1,7,8>>,
    <<2,6,1,3,5,3,4,8,8,9,0,5,3,7,0,1,7,1,3,5,0,5,8,2,6,6,3,6,9,9,3,6,5,0,6,6,7,7,3,4,5,0,0,1,6,7,4,5,3,0,0,5,0,0,5,6,4,9,4,7,3,2,5,0,2,1,5,8,5,7,3,5,3,4,6,5,1>>,
    <<4,5,9,4,0,9,7,5,0,9,9,7,2,8,7,2,9,8,7,2,7,1,6,6,1,7,5,1,0,4,3,4,1,8,5,8,6,9,7,8,8,9,7,9,7,3,3,8,1,6,5,6,9,3,7,8,4,4,8,2,0,9,6,0,3,9,5,7,6,4,9,0,8,4,4,9,7>>,
    <<1,5,4,2,1,0,9,4,9,7,4,1,7,1,1,8,1,8,1,2,0,5,7,1,0,5,3,0,9,7,8,3,8,5,2,0,1,6,0,8,7,8,4,3,2,6,0,6,4,8,2,0,9,9,1,3,4,2,5,1,9,0,9,2,0,5,8,0,8,7,8,3,1,5,9,1,2>>,
    <<1,7,8,2,1,5,3,6,8,0,1,5,0,2,5,3,8,6,2,3,4,3,1,4,0,3,4,8,1,1,4,3,3,5,9,6,6,0,6,0,1,4,3,4,1,3,4,6,9,4,5,2,8,9,8,2,4,0,4,8,0,2,8,7,3,8,1,6,3,6,0,8,5,8,9,4,3>>,
    <<8,0,1,0,7,2,9,8,3,8,9,4,3,0,5,8,7,4,0,6,1,4,8,0,7,9,0,5,1,1,3,7,4,1,3,7,8,8,3,5,7,6,1,1,6,6,1,3,7,4,8,1,3,7,1,3,5,7,9,6,5,0,4,7,7,1,2,3,0,6,8,0,1,1,2,3>>,
    <<1,8,6,9,9,2,1,5,1,6,3,5,0,9,8,8,3,2,6,3,3,0,4,3,9,3,6,7,3,2,8,3,2,7,6,0,2,9,6,2,0,7,0,9,3,3,1,7,4,7,6,5,1,0,3,9,7,4,7,0,4,4,0,0,3,3,8,4,5,0,6,8,9,9,9,1,7>>,
    <<3,7,0,4,5,7,8,7,9,4,3,6,3,8,2,2,0,0,0,2,9,1,7,6,3,3,9,2,1,7,1,6,3,0,9,8,7,7,7,9,2,7,0,7,8,5,0,5,5,8,5,9,1,8,3,5,8,7,4,0,8,1,1,4,5,7,7,0,1,5,8,3,9,9,1,2,8>>,
    <<2,1,5,7,5,6,3,7,9,3,5,4,1,7,6,4,5,1,1,0,0,8,9,0,3,7,9,0,0,8,9,5,4,2,9,1,4,6,8,3,8,8,4,5,1,1,3,5,1,6,2,8,4,5,6,4,6,7,1,5,0,8,3,6,6,5,4,6,9,4,4,9,7,1,1,7,4>>,
    <<1,7,8,8,7,8,9,7,7,1,7,3,8,7,0,9,7,1,2,5,8,7,5,9,1,1,0,9,9,6,6,3,6,2,0,8,0,8,6,8,7,7,8,9,2,4,9,0,4,2,4,3,5,6,9,2,0,0,2,3,1,4,5,8,3,0,8,7,8,4,1,9,7,4,4,7>>,
    <<3,1,8,9,3,6,9,5,3,6,6,5,9,9,0,2,1,1,9,7,8,1,2,6,2,1,3,7,1,7,1,5,6,6,5,9,0,3,3,1,5,7,4,7,3,8,5,2,4,7,4,3,6,5,4,9,8,1,0,7,1,7,1,6,7,3,2,1,6,9,5,4,8,4,7,6,6>>,
    <<5,1,1,5,3,4,0,0,1,7,9,5,9,8,3,4,8,2,2,0,4,1,0,7,2,2,4,0,1,1,7,2,0,3,1,4,9,5,9,3,1,7,7,1,1,5,8,2,0,9,0,8,2,3,5,6,5,8,6,9,4,0,1,1,8,5,1,9,7,6,3,3,0,7,9,9,0>>,
    <<2,7,0,6,5,3,4,1,6,1,2,8,0,6,3,8,7,4,8,6,7,5,7,7,2,6,5,5,2,8,3,4,2,6,8,2,2,2,3,9,1,8,1,2,3,0,1,8,9,7,8,6,5,1,3,0,0,6,2,5,9,4,1,3,5,4,4,9,4,5,0,3,1,1,2,0,5>>,
    <<2,1,6,3,1,3,7,7,7,9,4,4,2,3,8,1,6,0,9,8,2,3,3,5,0,0,2,0,4,3,9,4,6,8,5,0,0,9,3,4,3,2,5,4,8,1,6,6,1,5,9,0,2,5,5,1,6,4,1,4,9,6,7,5,6,7,6,3,6,3,8,5,0,3,9,6,3>>,
    <<4,8,1,2,6,1,5,5,4,5,2,5,5,0,0,9,0,9,4,1,0,2,5,8,0,7,3,5,6,2,1,1,8,4,3,5,8,9,7,5,1,1,1,6,1,1,0,4,7,7,6,5,2,5,1,1,6,7,2,2,7,9,5,6,6,4,2,8,9,2,6,2,4,7,1,4,8>>,
    <<4,1,9,4,5,3,3,2,6,8,5,1,0,5,9,5,1,5,9,3,8,5,1,8,4,5,8,3,9,4,0,3,1,8,1,7,2,5,9,8,7,9,0,1,2,5,8,0,6,3,4,2,9,7,6,9,2,5,7,3,3,9,9,9,5,3,9,2,4,5,0,7,2,8,7,6,6>>,
    <<2,4,2,9,6,0,6,7,5,7,9,7,6,7,0,8,0,4,0,3,2,4,7,7,6,6,3,2,3,4,3,1,2,0,4,6,2,8,3,4,1,6,0,5,7,1,0,4,8,7,4,4,7,4,3,1,3,2,3,9,4,7,6,3,6,1,2,5,2,8,6,7,3,0,4,1,2>>,
    <<1,5,8,8,1,1,7,8,4,6,2,6,8,1,3,7,8,8,4,4,9,8,8,2,5,2,6,0,3,5,6,3,6,0,9,6,9,1,1,6,2,6,5,1,2,0,4,6,5,8,6,6,4,8,5,6,4,9,3,5,8,8,7,6,9,9,5,0,5,6,3,2,0,5,4,0,7>>,
    <<3,3,0,2,7,3,8,1,3,9,5,2,1,5,6,6,3,9,2,7,1,4,8,3,0,6,4,7,0,8,4,1,4,2,1,0,1,3,4,0,4,1,1,6,8,1,4,3,0,5,7,4,0,8,0,0,9,4,8,9,4,9,8,2,3,0,2,1,5,5,4,2,7,4,0,9,8>>,
    <<3,9,2,7,8,3,1,0,4,7,3,0,8,4,7,6,7,2,0,9,7,8,7,3,4,0,5,2,4,9,3,6,3,9,2,8,8,4,3,8,7,8,1,5,0,6,0,9,9,0,7,4,3,3,2,3,1,4,3,9,4,5,3,0,8,3,8,6,1,8,9,0,0,0,8,2,0>>,
    <<3,6,9,1,4,8,3,0,1,0,5,5,9,3,2,3,9,1,2,7,5,8,3,2,4,6,6,0,6,0,7,8,0,1,5,0,8,6,6,9,4,5,7,8,8,7,8,0,6,1,4,1,7,3,6,0,3,6,3,7,1,0,4,7,2,6,5,9,7,9,2,2,7,1,1,5,7>>,
    <<2,4,7,1,4,8,1,8,3,1,2,2,7,8,8,1,0,2,1,6,8,9,0,0,6,1,9,8,5,9,2,5,0,3,1,9,4,7,9,5,0,8,2,7,7,2,6,8,9,9,8,6,4,6,3,5,6,5,4,1,5,2,9,6,1,7,1,8,5,2,0,1,5,3,8,6>>,
    <<1,0,1,3,3,1,7,0,9,1,9,5,6,9,1,8,5,5,9,6,4,7,0,8,5,4,9,2,6,6,9,0,0,3,9,2,2,9,7,3,5,6,3,2,7,4,0,2,1,2,9,9,8,8,4,6,0,6,9,4,0,0,8,0,0,3,9,5,4,3,7,9,4,9,8,1,8>>,
    <<1,3,7,1,3,8,7,5,1,2,8,4,0,7,3,6,8,2,4,0,6,8,5,5,0,5,3,5,7,6,6,2,7,1,7,2,2,7,7,5,1,4,9,0,8,3,6,0,7,9,6,5,5,5,3,8,0,5,7,6,1,0,7,0,7,9,2,0,0,4,3,5,7,6,1,6,9>>,
    <<8,3,4,2,6,6,6,6,4,4,6,4,0,7,7,4,9,8,6,6,3,4,4,3,2,3,2,7,7,9,6,2,9,4,6,8,3,5,6,9,3,9,8,3,7,0,4,4,6,1,8,6,9,7,7,2,1,7,7,0,0,2,8,3,9,2,7,7,4,1,4,5,6,7,4,5>>,
    <<4,6,6,0,1,3,8,9,1,2,5,8,1,4,7,4,8,8,6,8,0,9,6,1,1,1,6,2,4,9,0,7,2,3,8,0,9,7,0,3,2,5,4,5,9,8,5,7,6,5,6,0,9,1,7,5,2,6,8,4,2,8,9,4,3,2,5,8,3,1,4,4,9,5,3,0,0>>,
    <<2,0,9,5,5,3,9,0,7,4,3,1,0,9,5,1,1,5,6,3,7,9,7,2,2,3,1,0,8,8,0,7,7,4,1,9,5,1,3,9,6,1,0,0,4,8,0,0,2,1,1,5,6,6,4,9,6,5,1,5,0,5,7,7,0,6,3,2,9,4,3,4,3,8,7,4,9>>,
    <<3,0,7,8,4,5,6,6,4,0,6,7,4,3,6,9,8,3,9,7,2,0,0,7,5,4,7,7,7,3,0,1,0,3,3,2,8,1,2,3,1,8,6,0,3,4,9,2,0,0,9,3,5,9,0,8,0,4,7,7,5,7,1,3,7,6,1,6,8,7,7,8,7,5,0,7,4>>,
    <<4,8,3,4,3,1,9,6,4,3,9,0,3,0,2,7,2,8,9,6,0,3,0,0,4,2,7,1,7,0,3,9,1,9,0,4,1,4,0,5,5,2,9,1,7,7,6,2,8,6,9,1,9,5,5,3,3,5,8,3,0,5,3,2,9,0,6,5,0,6,0,2,4,4,5,4,4>>,
    <<5,4,5,4,6,3,0,8,8,4,1,5,4,4,3,2,7,8,5,5,3,7,5,6,8,5,3,2,8,2,3,0,7,7,1,9,4,5,2,4,7,8,9,6,1,8,9,1,3,8,3,3,3,5,1,5,0,3,8,2,8,0,0,5,9,6,3,1,2,9,6,4,5,4,4,7>>,
    <<5,9,2,9,2,6,4,6,8,7,2,5,9,7,6,6,3,5,7,4,4,6,0,9,5,2,3,8,4,2,9,9,3,2,3,9,2,3,1,5,6,0,4,1,1,3,0,9,5,8,2,2,3,2,7,0,0,0,5,8,9,8,2,7,4,1,5,3,2,0,9,8,3,0,0,4>>,
    <<2,2,0,7,5,4,4,4,9,0,8,8,2,1,6,3,9,0,9,7,7,0,6,8,8,1,9,4,7,0,3,6,3,0,4,3,9,6,8,3,5,7,2,9,5,3,4,5,1,5,6,2,8,4,3,4,8,1,6,9,1,9,7,1,5,4,1,5,5,3,8,3,9,0,0,1,7>>,
    <<2,5,9,4,1,0,5,8,8,1,6,9,7,5,1,4,0,5,5,2,4,4,6,9,9,4,5,5,0,9,4,8,5,9,3,5,7,2,9,3,9,1,6,3,9,7,2,0,1,6,3,9,3,5,7,9,8,0,3,4,5,7,0,3,0,2,0,0,1,2,9,4,7,6,9,7,3>>,
    <<3,9,7,7,6,3,4,8,4,1,4,4,2,8,9,5,7,1,4,7,8,1,9,3,4,6,9,0,2,8,6,4,8,2,2,5,2,1,6,3,2,0,1,6,5,9,9,3,0,8,4,3,2,2,8,3,7,1,2,6,2,5,6,6,3,0,3,4,4,2,7,2,4,0,3,3,7>>,
    <<7,4,1,6,7,2,0,8,8,0,4,1,4,6,3,3,0,4,2,9,3,9,6,0,0,4,1,2,2,3,1,3,6,0,9,7,0,6,1,4,0,0,4,2,8,3,5,9,7,6,1,4,9,3,7,8,2,4,3,9,8,5,3,0,4,9,7,2,4,3,4,9,9,2,1,2>>,
    <<2,7,7,5,9,5,1,2,1,7,7,4,4,6,1,1,3,4,3,5,8,5,9,1,2,6,0,9,3,0,6,9,8,9,5,4,1,9,4,6,3,0,5,4,3,2,4,6,7,4,2,0,8,6,1,6,1,2,2,1,7,6,3,7,0,5,8,3,3,5,7,5,6,2,9,4,1>>,
    <<2,6,9,3,3,9,0,2,5,5,8,4,1,1,2,2,2,2,8,7,8,2,4,5,9,8,2,0,3,3,6,5,2,7,3,4,4,0,2,6,4,5,3,4,5,2,0,8,8,1,7,4,6,9,3,4,6,3,1,5,2,4,0,1,1,7,4,0,4,3,4,3,8,4,6,9>>,
    <<5,0,3,6,7,2,3,9,3,5,0,6,6,6,5,3,9,4,8,2,5,2,8,9,5,5,6,8,4,3,1,1,2,8,0,6,0,8,8,1,7,2,7,6,7,5,3,8,6,8,0,8,5,5,8,7,8,9,0,8,1,2,5,4,9,4,3,6,1,8,9,5,8,6,5,6,4>>,
    <<1,6,1,7,4,7,3,3,6,4,9,0,4,8,1,0,9,4,6,0,5,6,9,1,2,4,3,2,7,8,9,9,1,2,8,8,6,8,0,4,9,1,1,2,8,5,3,8,0,7,4,8,6,9,9,2,5,2,9,0,3,1,0,2,8,6,1,8,6,7,0,5,0,2,8,4,0>>,
    <<2,5,0,3,2,5,1,6,6,8,6,6,2,0,0,2,6,0,6,3,5,3,2,7,6,9,6,7,4,8,7,6,9,3,6,1,1,6,4,9,6,1,6,3,6,7,3,4,1,0,9,8,0,2,9,8,3,1,3,0,9,5,2,5,2,8,3,6,9,0,5,8,3,3,2,4,3>>,
    <<2,9,1,4,4,4,0,3,9,3,0,6,2,1,9,9,8,9,3,9,9,4,4,1,0,9,3,5,1,4,0,3,4,9,7,4,1,1,5,4,8,4,4,1,1,5,6,0,2,9,6,5,9,9,4,5,5,1,5,6,7,5,3,5,0,2,9,9,2,6,5,0,9,4,4,6,6>>,
    <<2,0,0,3,2,7,0,7,7,6,0,2,4,0,5,7,9,2,5,1,2,8,7,2,8,3,4,8,1,7,5,3,8,2,8,3,7,2,8,2,4,3,1,0,8,2,4,2,8,0,4,7,3,5,2,2,6,4,6,9,4,8,2,3,9,1,5,7,3,8,9,3,4,5,9,7>>,
    <<3,3,3,6,3,2,1,6,6,7,1,2,4,7,0,1,8,6,5,7,3,8,7,3,2,1,3,9,7,5,3,7,4,3,6,1,4,3,1,8,7,3,5,4,1,1,0,0,5,7,2,6,6,6,2,7,8,8,8,1,1,7,9,3,8,6,0,7,0,3,5,1,9,6,8,3,1>>,
    <<2,0,2,0,3,0,8,6,4,7,4,5,4,6,0,9,8,4,1,2,3,5,6,9,1,0,5,3,3,8,8,4,8,3,3,7,4,4,8,1,6,7,3,9,5,5,6,2,9,5,9,5,4,2,7,8,6,3,5,3,6,7,8,5,3,7,8,4,8,5,6,4,3,8,6,1,7>>,
    <<4,2,9,6,0,2,2,0,7,7,1,3,1,8,4,1,2,3,1,8,1,7,6,9,6,9,6,3,1,3,4,6,5,2,4,4,0,8,0,7,6,0,0,8,1,5,8,1,6,5,8,3,2,3,4,6,1,6,8,1,4,2,5,5,7,6,7,4,2,0,0,6,1,4,6,7,9>>,
    <<6,3,1,1,4,3,1,2,9,9,3,5,0,4,0,0,6,4,9,2,5,7,5,5,3,1,1,7,8,5,0,9,9,4,1,0,7,7,7,8,6,5,4,7,6,5,7,2,5,5,5,3,4,6,9,0,2,6,7,1,3,4,8,0,0,4,1,5,2,4,2,3,7,0,5,7>>,
    <<2,0,3,5,6,1,6,4,1,9,8,7,5,7,6,0,8,9,9,8,8,2,4,1,9,5,6,6,2,8,1,2,9,2,0,7,6,2,4,1,7,2,2,5,0,1,9,3,1,7,0,8,3,1,6,4,4,0,8,2,4,8,4,5,9,5,5,6,0,3,3,0,8,7,7,9,2>>,
    <<5,0,9,3,4,6,9,6,5,0,9,7,7,5,0,5,9,3,0,6,7,3,0,9,6,6,0,1,3,0,3,4,5,5,4,0,9,0,7,8,7,6,6,8,6,1,5,7,7,8,1,6,7,8,3,2,2,5,9,9,2,6,6,2,1,0,9,0,5,8,4,6,9,8,2,9,8>>,
    <<1,2,5,4,0,5,4,3,7,8,5,0,9,3,5,8,5,1,7,1,8,3,2,0,8,5,0,1,5,0,3,2,6,1,5,1,6,8,4,9,6,2,9,2,5,6,5,4,6,9,1,9,8,0,4,0,1,0,3,6,3,1,2,9,0,6,3,9,4,8,0,7,1,9,6,3,8>>,
    <<7,0,8,7,8,3,2,3,7,7,9,6,4,1,3,1,5,4,5,6,5,1,2,2,0,2,6,7,7,4,2,8,8,3,3,4,2,1,7,9,9,3,0,8,3,2,3,5,0,8,4,5,1,9,3,3,7,6,3,9,1,1,7,6,5,9,2,9,3,1,7,1,6,9,6,1>>,
    <<3,4,9,8,4,4,1,1,2,3,3,8,9,8,9,4,0,9,7,3,8,6,9,0,8,7,8,6,1,2,2,5,5,0,4,4,8,3,5,0,0,9,1,2,7,8,0,3,0,7,0,2,4,5,9,5,1,5,4,5,4,5,1,9,6,0,9,7,8,9,2,8,0,7,8,8,9>>,
    <<3,5,7,6,6,3,6,4,1,5,8,3,0,6,7,6,4,8,8,7,4,1,6,1,0,8,7,5,7,2,9,7,7,6,5,4,7,2,3,3,2,1,4,7,9,6,1,0,1,0,5,3,3,9,5,6,6,1,4,9,1,3,5,6,5,9,3,5,8,7,8,4,4,8,9,8,4>>,
    <<1,7,6,5,9,7,1,7,0,1,9,9,8,6,5,6,1,6,1,4,8,6,9,9,5,6,9,3,6,9,2,8,0,0,5,3,8,5,0,5,5,1,8,4,8,1,7,6,3,6,3,9,4,8,8,0,1,0,0,7,2,2,2,1,4,4,2,0,6,8,2,3,6,9,5,1>>,
    <<5,2,2,9,6,2,6,0,7,0,4,9,6,7,5,3,3,2,3,8,2,8,1,8,6,7,9,8,3,4,8,4,6,5,2,0,9,8,8,2,7,6,1,6,0,2,0,2,7,2,0,3,5,8,0,5,6,9,5,0,1,7,7,0,7,7,6,8,6,2,9,0,2,1,2,1,0>>,
    <<4,9,3,5,6,7,3,4,8,9,7,7,4,3,2,2,1,9,7,6,2,8,1,6,0,7,4,2,2,4,1,8,8,3,7,2,3,2,8,1,1,2,5,8,6,6,4,3,8,3,7,8,6,4,0,6,3,6,9,6,9,5,4,2,9,5,9,3,8,0,6,5,9,4,5,7>>,
    <<4,9,4,9,3,3,7,4,6,6,3,2,6,7,5,8,8,7,5,1,8,4,6,0,5,4,3,7,8,3,4,3,3,0,1,7,0,8,6,9,4,5,3,1,5,8,0,0,9,2,9,8,4,3,4,6,0,8,7,2,9,0,3,1,7,7,4,2,5,3,7,2,1,0,9,0,2>>,
    <<1,1,2,3,4,5,2,0,9,8,5,8,6,5,3,2,5,4,1,2,2,0,6,4,0,3,2,9,1,1,1,8,5,1,9,7,5,3,1,8,9,9,8,6,8,4,5,6,8,1,5,2,6,7,9,6,6,3,8,0,9,0,4,4,6,7,8,8,3,4,8,6,9,7,6,5,2>>,
    <<2,4,2,4,0,5,6,6,6,0,2,7,5,9,9,8,4,7,8,8,0,2,9,8,8,0,0,3,0,2,7,6,0,8,5,6,2,3,6,8,2,3,2,0,9,7,9,8,8,5,1,2,2,3,6,3,1,0,3,4,4,6,0,3,0,3,4,6,9,7,6,8,6,2,5,5,4>>,
    <<4,5,1,7,3,6,7,3,0,5,6,6,8,8,6,5,0,4,8,6,1,2,4,7,9,8,3,5,3,2,6,7,0,4,8,6,7,6,5,1,5,6,5,2,8,8,1,3,2,4,8,4,6,8,5,1,4,4,3,0,9,8,0,1,0,7,7,5,6,1,2,8,9,2,3,2,2>>,
    <<2,7,3,3,3,9,0,7,9,8,9,4,9,5,2,1,6,8,9,7,4,0,6,5,5,2,7,1,3,7,7,2,3,2,8,2,5,6,4,0,9,5,6,5,2,9,5,1,9,0,9,6,5,6,9,5,7,1,6,0,9,4,6,1,1,4,7,9,2,8,9,6,6,2,7>>,
    <<4,4,7,0,3,2,5,0,5,1,6,4,0,3,5,1,9,5,7,9,7,6,7,3,8,7,8,2,6,4,2,6,6,1,9,9,7,1,5,3,6,0,1,7,3,9,6,3,8,6,3,2,3,6,3,2,1,0,8,2,9,1,0,0,0,5,1,8,1,1,7,4,4,2,7,4>>,
    <<3,5,1,4,6,1,5,4,4,3,1,8,8,5,1,0,7,5,3,3,1,7,9,2,4,1,7,2,9,8,7,5,5,8,0,2,1,7,4,8,2,2,0,4,7,8,0,2,3,1,9,3,7,9,8,7,1,3,0,1,4,7,6,0,5,5,8,3,8,6,7,4,6,6,0,9,2>>,
    <<5,6,2,3,9,7,6,3,0,3,1,5,5,9,4,2,4,5,6,7,1,0,6,1,8,2,8,6,5,1,9,7,5,8,7,6,1,2,0,4,9,2,3,6,8,6,9,2,6,8,1,3,3,7,8,5,4,8,0,2,1,0,7,5,7,3,3,7,5,5,1,6,6,8,8,9>>,
    <<2,4,0,1,6,4,6,5,9,5,1,5,3,0,0,1,5,5,7,8,2,0,9,2,7,5,2,3,3,6,6,8,9,6,1,4,8,2,3,2,2,5,8,4,1,3,1,4,5,9,5,1,3,2,8,8,0,8,1,5,9,8,2,1,0,1,3,4,0,1,5,2,5,7,9,9,7>>,
    <<1,7,9,6,9,9,2,0,0,9,7,1,7,6,8,9,1,0,2,2,4,1,5,6,8,7,6,3,9,7,0,9,9,9,9,9,3,9,0,8,4,4,9,0,5,4,5,6,4,5,2,0,5,3,2,6,4,8,1,6,6,1,8,6,0,9,3,1,8,0,8,1,1,3,0,2,9>>,
    <<4,5,1,5,2,2,0,6,5,0,8,6,7,4,4,1,1,7,4,7,8,5,6,2,8,5,0,0,0,2,5,7,9,3,8,2,2,8,1,3,7,1,7,4,9,3,3,5,7,7,3,7,9,7,2,6,5,8,0,0,7,2,5,0,9,8,5,0,6,1,9,9,2,6,2,5,1>>,
    <<3,8,9,4,5,6,3,4,7,9,5,2,5,0,9,2,7,3,6,0,6,0,7,5,3,7,3,9,2,7,3,2,8,0,5,8,9,7,8,7,3,1,0,0,9,8,6,3,7,9,2,8,8,0,2,7,6,0,6,1,7,5,9,2,8,0,1,9,9,7,7,5,0,9,6,0,9>>,
    <<3,2,8,5,1,6,6,6,2,8,9,6,9,3,6,1,3,0,4,4,8,8,9,2,8,3,1,3,3,8,4,9,4,9,0,3,4,3,6,7,4,9,6,8,7,2,6,7,3,0,7,9,3,0,5,9,1,6,5,4,2,9,9,9,1,0,5,5,9,2,2,4,5,4,0,7,0>>,
    <<3,1,9,4,4,6,2,0,8,5,3,7,0,0,6,3,0,1,5,1,3,4,7,7,5,1,9,1,0,5,8,7,9,6,9,5,5,0,2,2,3,7,8,1,6,5,5,4,8,0,7,7,6,7,8,1,6,1,2,6,9,2,8,8,4,0,5,8,5,6,3,6,6,2,2,6,8>>,
    <<2,5,2,5,6,9,6,6,2,7,4,4,5,2,5,3,5,0,1,7,6,1,0,5,7,2,4,4,6,8,8,7,4,3,9,1,1,5,0,4,6,0,7,4,6,5,1,3,3,1,2,1,1,7,8,1,7,0,8,1,6,8,7,7,3,6,5,5,0,0,7,7,7,8,8,7,2>>,
    <<9,4,8,6,9,3,9,0,2,1,5,0,2,5,9,0,6,0,8,7,3,2,0,0,1,6,2,8,3,3,1,6,9,5,4,2,1,2,2,3,5,5,0,4,0,6,0,3,8,4,8,6,8,0,2,1,9,7,2,6,1,9,4,5,1,7,5,6,6,8,7,8,5,5,0,7>>,
    <<3,9,4,5,9,1,4,3,0,8,6,9,6,0,3,6,2,4,2,6,9,2,7,5,0,5,1,3,7,1,3,7,8,7,6,2,1,8,3,9,0,9,3,5,5,4,4,2,3,6,0,5,9,9,3,8,9,2,2,8,7,1,8,8,0,0,0,0,2,9,6,1,7,5,2,0,8>>,
    <<3,1,8,9,4,4,5,0,2,2,4,0,4,8,3,4,6,2,6,0,3,2,2,3,3,9,6,5,5,4,4,7,9,5,0,5,4,6,6,7,0,4,2,2,4,2,1,2,4,2,7,1,5,4,3,9,7,3,4,1,2,2,7,4,9,9,1,5,2,9,6,2,4,3,6,0,5>>,
    <<2,6,8,9,2,5,3,9,0,9,1,3,1,8,4,2,8,4,2,0,9,3,1,2,2,5,0,4,0,4,1,7,6,5,1,4,4,2,1,3,9,7,0,1,5,8,7,9,3,0,8,0,4,6,9,7,8,8,6,0,2,3,6,1,9,4,3,1,5,5,8,5,4,2,7,4,7>>,
    <<2,5,4,2,8,4,4,9,4,4,7,1,8,7,3,5,3,0,2,7,6,6,4,4,6,6,3,7,2,0,2,4,0,4,4,2,7,6,2,8,4,1,3,8,7,8,0,9,2,7,3,4,8,6,5,9,1,2,7,4,4,5,5,3,9,8,4,1,5,7,1,6,1,2,6,1>>,
    <<3,1,8,8,3,8,5,9,2,2,1,3,4,6,3,1,3,1,0,7,4,1,4,4,7,4,8,4,6,2,5,2,7,5,2,6,0,4,9,9,2,0,9,7,5,9,0,1,3,3,9,6,1,8,4,2,8,4,8,9,1,3,0,1,9,0,7,3,0,1,4,1,5,3,0,1,0>>,
    <<5,1,3,0,3,3,6,1,3,5,9,6,5,3,4,6,4,0,5,0,0,0,6,7,7,1,5,3,7,3,4,1,2,2,6,9,7,6,5,3,9,6,0,4,9,6,4,2,0,5,9,2,3,3,9,9,4,6,9,6,1,4,5,6,4,7,0,6,0,0,8,8,3,4,0,5,2>>,
    <<5,1,1,7,1,3,8,7,5,0,2,7,6,4,3,3,0,5,6,2,7,7,4,8,4,9,6,6,7,0,3,3,0,3,4,2,8,3,0,5,6,0,8,0,4,5,0,3,8,5,8,7,2,8,9,7,2,0,4,7,7,3,2,2,3,6,4,5,0,8,5,3,6,9,2,5,4>>,
    <<7,2,3,7,0,9,1,5,7,6,9,1,6,2,4,1,6,9,5,0,4,7,2,9,3,0,8,4,5,2,2,1,4,1,3,3,6,2,6,8,6,5,6,2,7,6,3,8,6,0,8,8,0,2,1,9,5,4,4,8,1,8,5,2,1,9,9,9,2,1,9,7,3,2,1,6>>,
    <<2,5,0,2,6,5,5,4,4,5,8,9,6,2,8,4,1,4,6,7,9,6,8,6,8,2,6,0,1,6,8,0,1,4,3,7,4,6,5,3,7,6,1,8,7,8,8,3,3,6,3,9,6,5,3,8,5,6,9,0,9,5,1,4,5,2,8,0,4,4,5,6,6,2,1,5,4>>,
    <<1,6,0,0,3,5,1,3,8,8,6,7,6,2,9,8,3,4,6,0,7,1,7,8,3,6,2,7,1,0,3,5,4,8,4,6,5,6,7,5,4,7,2,3,3,5,5,1,1,4,7,7,2,1,5,9,9,9,0,2,6,9,5,0,5,7,3,9,7,5,9,6,0,0,7,7,4>>,
    <<2,0,7,4,2,1,7,9,9,7,9,1,7,8,8,0,9,7,9,6,1,2,2,3,9,5,6,9,1,3,6,8,5,3,8,6,9,4,8,3,7,5,9,8,0,1,0,6,8,9,7,8,2,7,9,6,3,9,8,7,1,5,7,0,1,4,8,6,5,2,5,0,8,5,9,5,8>>,
    <<4,4,7,8,5,8,3,2,9,7,4,7,1,5,5,7,1,2,0,8,3,8,3,5,3,9,7,4,8,0,4,8,1,9,5,4,2,5,1,5,8,6,2,1,4,5,1,2,0,1,6,2,0,0,9,1,4,0,9,3,0,4,6,7,5,6,4,3,5,4,0,4,8,4,4,4,4>>,
    <<4,0,9,9,7,6,8,3,7,5,6,9,7,9,8,5,5,9,6,9,6,3,1,3,7,0,2,4,2,2,9,0,4,8,7,6,0,3,8,5,2,4,3,6,4,4,9,6,0,8,2,9,8,4,9,9,3,2,5,5,5,8,3,9,4,7,1,5,6,9,6,2,0,4,8,3,1>>,
    <<2,4,0,3,9,5,7,7,9,9,9,6,1,8,8,7,6,1,5,9,8,3,6,4,5,2,5,5,9,4,6,4,6,0,0,3,7,7,5,5,3,6,8,4,6,9,6,5,9,8,3,1,0,5,4,2,8,3,0,1,8,5,6,4,8,5,7,0,6,9,4,9,4,7,3,2,5>>,
    <<2,1,4,9,9,1,5,0,0,3,8,0,2,2,1,4,0,2,7,4,5,8,7,4,2,7,5,5,0,7,1,3,8,8,2,5,9,4,3,3,0,9,1,8,8,1,5,1,6,8,3,8,6,1,1,5,6,7,6,7,0,1,7,2,5,8,3,3,5,7,5,9,5,1,8>>,
    <<3,7,6,4,8,9,4,4,2,2,9,3,2,4,8,1,2,3,7,9,9,0,4,4,4,5,6,3,2,1,9,3,3,9,1,9,0,3,3,5,8,4,7,3,3,5,7,8,1,4,5,0,5,2,5,6,5,7,1,2,3,4,4,9,2,4,7,2,6,7,7,3,5,2,3,7,5>>,
    <<3,3,2,6,2,0,0,1,0,9,1,0,8,0,7,2,1,9,2,7,1,8,7,3,2,6,8,2,9,3,7,5,4,4,1,5,9,7,3,1,2,8,5,3,7,4,2,3,1,1,9,1,5,4,6,1,3,5,7,1,8,4,1,6,4,0,5,0,3,3,4,1,7,6,1,7,1>>,
    <<1,2,8,8,9,7,5,9,0,8,8,4,3,2,1,9,0,0,3,3,1,7,1,0,8,6,8,8,1,8,4,4,6,7,5,3,7,7,8,1,5,6,8,6,3,1,1,2,8,2,4,8,8,9,5,5,5,6,9,4,9,1,0,3,5,8,0,0,5,3,1,2,2,7,5,9,2>>,
    <<3,8,8,8,9,9,7,0,1,2,1,4,3,2,4,6,9,9,0,3,4,3,3,8,4,6,0,6,3,1,9,0,5,5,2,7,8,1,9,2,5,2,7,7,8,7,4,1,2,8,9,1,6,4,3,2,8,8,9,4,4,2,8,6,5,0,3,1,4,0,0,4,8,6,4,5,7>>,
    <<9,6,8,6,7,5,9,5,4,6,3,9,5,3,1,7,4,3,8,5,0,2,7,0,0,8,1,8,4,7,8,2,9,1,4,1,3,8,8,8,2,9,1,2,6,1,7,8,1,9,2,7,3,9,9,1,9,7,5,9,4,2,9,9,1,1,9,6,0,0,5,9,3,8,7,2>>,
    <<2,5,2,2,8,8,3,9,8,6,9,8,2,7,3,1,5,4,3,7,8,4,1,9,9,4,4,3,2,8,6,0,0,2,3,8,6,3,4,6,1,6,1,3,4,7,1,5,1,7,4,5,7,2,3,5,1,0,5,0,9,1,9,5,1,1,8,8,5,5,6,0,0,7,1,7,1>>,
    <<2,9,2,5,1,0,6,7,4,1,1,8,5,8,7,4,9,2,1,0,9,9,3,2,6,9,1,6,8,6,3,7,5,0,3,6,5,9,8,0,2,5,2,2,3,9,9,3,4,2,6,4,0,4,8,8,8,6,3,6,2,9,7,5,1,1,5,5,4,2,2,4,4,2,0,8,4>>,
    <<4,0,9,1,2,6,6,0,6,8,1,5,1,2,2,7,8,2,3,6,1,6,5,9,1,1,3,6,6,9,2,7,2,2,0,4,0,1,3,3,0,4,0,9,8,2,7,9,9,4,2,6,4,1,0,3,0,9,1,9,8,4,3,0,0,1,3,1,5,8,6,0,7,8,3,4,1>>,
    <<1,2,7,9,6,5,0,1,9,0,9,4,4,4,4,9,4,7,0,9,0,8,8,6,5,6,3,8,0,5,0,7,0,3,5,4,1,8,4,1,2,2,4,0,2,6,7,9,3,6,9,2,1,9,7,4,5,9,2,4,5,0,1,2,5,2,2,0,3,6,9,7,5,2,8,2,1>>,
    <<4,1,4,8,9,9,9,7,5,9,1,2,2,7,1,3,5,5,7,1,6,6,6,4,3,6,3,8,7,9,2,5,1,1,9,7,6,7,9,8,6,3,8,0,2,7,8,5,9,0,9,2,0,8,1,1,3,4,3,1,8,3,0,8,2,1,2,8,4,5,2,7,9,3,0,8,0>>,
    <<2,1,4,9,7,8,6,2,2,6,5,0,0,9,6,9,3,3,3,4,2,9,2,0,0,6,5,7,0,5,4,7,4,5,1,4,5,5,0,2,1,2,1,4,6,3,8,9,3,0,3,9,3,1,3,4,3,6,6,1,7,6,1,6,7,3,2,6,8,0,5,7,9,9,3,2,5>>,
    <<4,2,7,5,9,4,8,8,9,9,3,3,6,6,1,8,7,5,5,9,5,2,8,0,2,2,2,7,0,3,5,3,4,7,7,0,6,8,3,2,5,4,7,6,4,3,5,3,1,7,3,6,6,1,2,9,0,9,9,6,1,7,1,4,9,2,3,6,0,5,7,9,9,4,1,7,3>>,
    <<5,1,8,1,2,7,8,6,4,3,5,3,5,2,9,5,8,7,5,1,6,3,1,4,8,2,4,0,9,0,5,7,6,7,1,9,9,6,5,5,7,1,4,0,7,6,5,8,6,5,4,3,4,0,8,7,1,9,6,1,3,9,8,8,6,1,5,5,8,7,3,5,5,0,6,3,8>>,
    <<4,9,6,6,8,9,8,4,9,1,7,5,7,8,9,9,3,0,5,7,3,3,6,5,7,1,4,8,3,5,6,7,9,0,0,9,3,0,5,0,3,1,2,0,6,2,6,5,3,9,4,5,9,2,9,6,9,7,5,3,2,8,3,5,1,7,2,7,3,1,9,8,6,1,2,7,6>>,
    <<1,6,6,4,7,8,2,8,4,9,8,0,3,8,6,4,6,5,4,0,9,2,5,3,2,8,8,2,6,3,0,1,5,6,1,9,2,9,3,7,4,4,6,9,4,8,6,6,2,3,0,2,7,9,7,6,7,2,3,8,1,9,4,7,3,8,2,1,4,8,0,4,0,9,6,8,1>>,
    <<4,8,1,4,8,3,0,3,3,4,0,5,4,8,2,1,4,3,5,4,7,9,5,0,6,7,1,1,2,7,5,8,1,7,4,2,3,1,0,1,0,3,0,8,7,6,0,4,8,2,8,9,8,4,4,9,3,4,9,6,7,2,5,9,2,7,4,5,2,3,4,9,2,4,3,8,7>>,
    <<4,0,5,1,4,0,9,9,2,1,3,9,3,9,3,6,9,4,8,2,7,6,9,0,5,8,9,6,3,4,8,2,6,0,9,3,1,6,1,5,5,0,5,1,5,6,0,9,9,0,2,6,4,3,4,9,6,6,8,7,0,0,9,6,8,9,1,4,5,5,4,7,1,8,2,3,6>>,
    <<3,6,5,6,7,9,4,7,3,0,2,7,8,3,5,4,3,5,0,6,7,3,2,2,3,4,1,3,2,1,3,8,1,9,5,4,4,2,1,5,5,7,7,7,5,5,9,4,5,4,2,4,2,0,0,3,8,1,4,7,0,2,0,9,9,9,5,5,7,4,9,2,4,6,2,9,0>>,
    <<2,2,3,9,6,8,1,6,9,2,5,0,3,5,7,9,5,1,9,2,8,4,2,0,9,4,3,1,9,7,5,7,1,3,1,7,7,1,1,7,8,4,9,9,9,3,3,5,8,7,2,3,7,0,1,2,8,5,5,6,4,0,9,4,4,0,6,8,1,8,6,5,8,9,9,3,7>>,
    <<4,7,7,6,1,4,7,9,7,1,6,2,6,5,5,6,6,3,1,1,0,3,6,1,4,2,8,1,9,2,6,1,7,0,5,3,6,9,7,3,5,0,4,4,1,4,5,2,1,4,5,9,2,6,0,8,2,1,3,5,9,1,0,5,0,5,5,6,4,5,5,4,5,0,4,3,0>>,
    <<1,3,2,7,7,0,9,4,5,9,0,6,8,6,1,2,7,3,0,7,6,1,7,1,0,7,4,5,1,2,9,7,2,6,8,3,6,7,3,2,1,0,1,3,8,2,8,7,6,3,8,5,8,5,2,0,2,2,0,5,1,0,0,2,8,3,1,8,2,4,8,0,4,0,6,7,3>>,
    <<6,2,7,3,6,1,0,7,7,4,3,9,4,3,4,8,3,9,6,0,1,0,7,0,4,0,1,7,5,5,6,5,5,4,9,9,2,2,6,6,7,5,2,6,2,9,8,0,1,4,9,0,4,5,7,3,2,3,9,1,2,3,5,5,6,2,6,7,8,7,1,0,8,7,5,1>>,
    <<4,7,3,9,4,2,7,9,6,1,5,6,2,3,7,9,8,7,6,0,6,1,7,6,0,2,7,4,8,8,6,4,9,2,4,7,1,1,5,3,1,3,9,0,4,8,9,9,0,9,7,5,6,0,2,9,2,4,8,9,9,9,9,2,5,5,7,0,4,5,0,3,1,5,3,0,2>>,
    <<2,7,9,5,2,2,5,2,7,9,3,6,2,3,5,8,0,7,8,0,3,4,4,6,1,3,5,5,9,8,2,9,6,7,7,2,5,3,2,1,1,4,3,2,9,2,5,5,3,0,6,3,0,6,2,1,6,0,8,4,8,1,0,5,3,0,4,8,5,2,0,4,3,4,7,4,4>>,
    <<1,6,8,3,2,2,2,9,4,3,0,1,1,6,5,8,2,3,4,2,2,8,4,8,6,8,6,2,6,3,9,3,4,2,4,0,2,7,3,0,5,3,8,6,3,5,2,0,4,8,8,3,0,3,9,4,3,1,2,2,6,2,3,9,9,2,4,2,6,8,8,3,5,5,9,2>>,
    <<6,8,4,9,7,0,9,5,5,0,5,1,5,6,3,9,6,6,9,3,9,7,5,1,3,8,9,5,3,9,6,3,9,6,2,2,6,1,8,3,3,0,5,2,3,7,1,5,3,7,9,6,7,9,3,0,5,8,3,1,1,8,6,1,8,5,0,2,4,2,8,1,7,7,3,2>>,
    <<5,1,5,2,4,3,5,0,0,1,7,8,1,6,6,2,9,9,1,2,6,7,9,9,6,0,7,4,8,2,9,5,5,4,5,0,2,4,5,9,3,6,3,7,5,6,0,6,3,3,5,0,8,2,8,1,8,7,4,7,2,4,5,9,7,0,8,0,5,7,3,8,0,7,8,3,0>>,
    <<2,6,5,9,0,6,1,4,1,7,7,1,9,4,5,4,7,6,3,0,0,0,6,3,4,7,8,4,3,0,6,8,5,1,3,4,9,6,4,2,7,7,9,0,3,2,2,8,5,4,7,5,9,4,3,3,4,9,2,3,5,5,5,1,7,3,6,0,2,0,8,9,2,4,7,1,4>>,
    <<3,1,5,4,8,8,3,0,0,0,1,3,9,6,6,5,1,7,2,5,7,1,1,3,1,0,2,9,8,4,6,5,9,5,8,4,9,0,8,6,5,6,3,6,8,5,5,4,2,7,2,2,7,0,4,3,6,1,7,5,8,5,5,0,2,9,7,8,0,5,3,0,9,2,9,2,4>>,
    <<1,4,2,9,1,5,6,8,4,7,3,8,0,6,3,9,2,8,0,3,3,6,7,4,4,0,1,6,4,0,8,8,2,7,2,3,8,1,6,9,0,0,6,2,2,3,9,6,3,8,5,6,0,6,0,7,8,7,9,8,5,8,5,2,8,7,1,6,0,5,8,1,4,7,6,7,6>>,
    <<2,1,1,4,6,4,5,2,9,0,3,1,6,0,9,9,1,9,2,2,0,9,9,7,3,4,1,9,9,5,8,3,8,6,6,9,2,3,3,1,8,9,6,4,5,8,6,8,1,5,0,6,2,5,5,0,0,2,4,8,9,5,4,0,7,4,3,0,1,6,4,3,5,8,5,2,3>>,
    <<2,2,9,6,1,0,0,5,7,2,4,5,8,3,3,8,2,0,1,3,4,3,8,4,5,0,4,8,7,6,6,2,0,4,7,9,6,2,0,7,2,1,2,3,1,9,8,8,1,5,3,0,8,6,4,7,9,6,7,5,5,5,2,5,1,3,3,2,8,2,5,1,7,5,6,9,3>>,
    <<4,7,5,2,9,0,8,8,4,2,3,1,8,6,2,6,0,7,4,3,3,8,9,2,6,2,7,9,8,7,0,9,9,3,0,8,4,9,5,7,0,5,5,6,4,1,4,0,2,7,6,7,8,7,7,9,8,8,2,2,3,1,9,9,2,6,2,4,0,8,0,1,7,4,3,8>>,
    <<4,1,5,4,4,5,2,3,6,0,0,4,3,0,3,3,1,2,6,0,3,3,2,6,0,4,1,4,9,4,7,3,0,3,5,1,9,9,9,9,4,8,6,4,8,9,3,3,2,7,7,4,7,2,5,7,5,0,4,0,6,4,0,3,8,7,9,1,0,8,6,1,5,7,4,0,8>>,
    <<1,7,3,2,3,8,7,8,2,9,6,5,9,1,8,5,9,9,9,0,7,3,3,1,3,2,8,3,2,8,9,3,6,4,1,0,9,6,0,2,2,1,6,1,9,3,6,5,8,3,1,2,1,9,9,7,9,5,2,9,9,7,8,8,0,4,0,6,2,3,7,2,1,2,8,1,3>>,
    <<1,8,0,1,4,5,8,2,7,4,4,6,1,3,0,8,6,6,9,7,4,0,5,0,4,6,4,7,6,8,8,1,0,8,1,3,1,4,8,7,1,6,9,8,9,2,7,7,8,5,4,9,0,2,3,8,3,3,3,6,1,2,3,3,0,0,3,4,4,0,5,3,2,1,2,0,2>>,
    <<4,5,3,2,5,4,4,7,1,4,0,8,2,4,1,7,1,2,1,1,2,0,9,6,3,3,2,6,2,2,9,7,7,1,2,8,7,8,5,5,6,5,0,0,5,9,2,0,2,3,2,4,7,0,8,2,6,2,9,4,9,2,7,8,5,7,6,9,1,2,1,7,5,8,4,3,4>>,
    <<6,1,9,2,7,5,3,4,3,4,3,3,3,0,0,2,9,2,9,2,1,0,8,2,0,7,9,4,0,4,0,7,7,9,5,6,0,6,2,3,4,2,1,0,7,5,7,0,0,8,0,0,4,0,0,7,5,2,5,9,9,1,3,8,5,1,9,6,5,0,2,6,9,0,4,0>>,
    <<1,2,9,3,7,0,0,1,5,4,6,2,7,9,9,8,5,7,3,8,4,9,5,9,5,2,6,2,4,8,7,5,3,1,2,3,8,0,1,2,7,8,0,1,5,2,7,8,3,7,6,6,0,8,8,2,8,5,5,3,1,0,4,3,1,0,1,5,5,3,7,1,8,4,4,1,3>>,
    <<4,5,9,9,1,6,1,8,7,9,9,6,9,6,9,2,4,9,0,9,8,4,0,0,6,8,9,1,3,2,7,1,1,5,0,7,4,8,0,5,2,9,9,8,9,9,8,5,1,0,8,2,0,2,9,3,7,6,8,2,6,7,3,4,9,7,8,1,5,9,7,8,3,2,4,9,7>>,
    <<3,7,4,4,1,1,8,8,1,0,6,7,1,9,4,5,7,9,3,3,9,2,9,2,2,1,4,7,4,4,5,4,5,7,1,1,1,0,9,1,6,9,1,2,4,4,8,3,5,5,9,4,5,5,2,4,4,0,9,5,7,6,6,6,5,8,0,8,5,5,6,2,4,7,8,7,2>>,
    <<4,9,8,7,5,9,2,3,6,7,9,5,8,6,7,0,8,1,1,3,4,0,6,5,7,9,2,4,4,9,0,9,7,9,3,1,6,2,4,2,5,4,0,4,2,3,9,2,1,3,5,1,0,9,5,3,2,6,9,4,1,2,3,3,7,3,6,3,3,0,7,3,2,5,5,7,1>>,
    <<1,5,0,5,1,4,6,5,6,9,8,0,7,1,3,0,4,0,1,7,9,6,6,6,6,7,7,9,7,3,2,3,1,1,3,0,9,4,4,2,0,5,1,3,7,0,9,5,8,0,0,6,3,8,0,6,7,0,6,4,3,3,2,3,2,8,5,3,5,7,3,0,8,9,0,4,0>>,
    <<1,0,3,3,8,9,0,5,1,8,9,1,3,8,8,7,1,7,4,8,7,4,2,4,0,0,9,2,9,1,0,1,7,1,7,7,5,5,9,8,2,9,7,8,2,5,9,1,8,7,8,2,8,2,5,6,0,3,9,0,7,1,2,5,0,8,1,7,0,4,0,2,4,9,0,1,7>>,
    <<4,0,2,6,1,9,3,3,4,4,8,1,7,7,0,0,8,3,4,1,5,3,9,9,9,1,9,2,0,6,4,5,7,3,9,0,1,1,6,9,2,4,6,7,6,4,5,1,4,4,8,9,6,6,8,2,3,9,4,8,6,9,5,6,1,2,4,5,8,9,9,3,1,8,6,4,1>>,
    <<3,8,3,4,6,4,9,8,3,3,9,2,5,2,1,8,4,1,4,7,8,7,0,2,8,1,4,3,1,3,6,4,7,3,3,6,3,1,8,0,9,8,7,7,2,8,1,7,4,7,4,5,1,4,4,0,2,1,6,0,6,7,0,8,1,2,5,6,2,4,1,4,8,5,4,1,8>>,
    <<6,2,0,9,2,1,6,3,9,6,7,1,5,6,4,1,0,4,0,4,6,8,8,0,3,9,4,9,8,5,7,1,6,7,0,5,5,1,7,5,1,1,0,4,2,0,2,1,8,2,9,4,9,7,5,3,0,3,2,6,0,7,2,8,5,7,9,1,8,0,8,7,0,1,3,4>>,
    <<2,5,9,2,3,4,2,2,2,9,0,5,1,2,5,9,5,8,0,8,4,2,0,5,5,1,5,7,5,6,4,2,2,3,7,6,3,1,0,0,7,4,9,7,1,6,9,8,8,6,5,9,0,8,5,1,1,2,8,8,4,0,3,3,8,1,0,2,1,9,4,8,7,3,7,2,6>>,
    <<1,1,9,5,3,6,1,8,9,3,4,0,8,6,9,1,5,5,0,5,6,7,2,6,5,7,4,9,3,1,1,5,6,9,7,1,8,2,8,5,8,1,0,4,7,9,6,7,8,6,3,4,0,1,3,7,2,9,4,5,0,0,9,4,9,0,4,7,3,3,9,9,2,8,2,9,0>>,
    <<4,8,5,0,6,7,1,0,9,5,2,0,2,3,2,0,6,6,4,6,3,2,6,8,3,8,2,0,1,3,8,9,7,8,9,4,5,9,0,0,4,0,5,1,0,3,5,5,1,1,8,8,8,4,7,4,4,2,6,9,4,2,2,5,7,5,6,0,4,0,5,4,2,7,1,0,4>>,
    <<4,9,5,8,4,8,1,1,5,7,5,4,3,8,8,1,1,5,1,1,0,9,2,7,1,5,5,5,9,8,8,5,0,1,5,4,7,4,4,2,4,1,0,0,7,2,9,5,5,5,1,7,8,7,3,0,9,4,0,6,4,0,5,2,5,3,9,3,3,4,1,8,2,3,5,7,2>>,
    <<2,5,2,2,2,5,2,8,9,4,7,3,7,3,9,2,3,1,5,1,0,5,4,3,7,2,7,0,2,6,6,4,4,2,5,1,7,3,2,1,0,4,4,1,9,8,0,2,6,3,1,3,0,3,8,9,3,2,5,5,5,7,9,6,3,8,5,3,4,2,9,2,3,9,3,2,0>>,
    <<3,6,2,1,2,4,5,2,9,4,1,3,1,6,9,9,7,5,0,4,5,7,5,8,0,3,2,1,4,3,0,9,3,4,2,4,1,3,4,4,3,1,5,1,4,8,8,2,6,7,8,9,1,9,4,9,9,0,6,8,1,5,0,9,0,4,5,3,7,4,6,5,6,3,3,2,3>>,
    <<1,9,5,4,8,3,3,4,1,7,1,6,0,3,5,3,3,1,0,9,1,3,7,6,1,8,0,3,2,9,1,8,0,8,8,4,3,8,3,2,1,3,5,6,0,0,8,7,1,2,8,0,0,1,4,0,0,1,9,8,4,9,9,0,8,9,6,9,4,7,6,3,6,9,1,4,0>>,
    <<1,3,3,6,9,7,1,4,0,0,8,2,5,6,3,4,7,3,6,3,3,3,4,8,8,8,0,2,6,5,8,5,9,9,5,4,3,3,7,2,4,8,1,7,7,8,6,7,9,7,5,2,8,4,3,0,1,3,6,7,4,4,4,5,8,7,4,3,4,2,8,3,7,6,7,9,8>>,
    <<2,3,1,5,3,1,7,4,8,7,5,4,4,1,4,2,6,0,6,9,9,2,2,5,3,8,8,4,5,8,3,9,0,7,4,5,7,4,0,9,5,7,9,7,7,3,8,8,9,2,2,9,8,5,7,6,5,8,1,8,9,5,0,2,0,4,4,4,3,9,2,8,5,3,7,3,1>>,
    <<1,9,9,5,0,6,3,2,3,1,5,7,6,7,7,5,0,6,4,5,7,8,0,4,8,5,2,1,2,1,7,9,0,2,1,2,9,1,8,4,4,4,3,9,6,5,9,6,0,6,8,5,4,9,5,7,3,6,5,1,2,4,2,0,8,0,5,7,0,4,4,4,7,7,0,0,1>>,
    <<4,9,9,0,0,8,5,3,2,0,6,8,4,3,0,7,4,8,1,4,2,4,0,5,1,0,5,7,7,5,8,2,5,8,8,1,1,1,9,2,0,0,3,2,8,9,4,7,2,2,3,9,9,3,2,0,3,2,5,5,1,9,6,6,5,1,3,5,6,4,4,9,2,6,6,4>>,
    <<2,9,8,1,0,0,4,3,8,6,2,3,8,4,4,0,9,2,6,1,5,6,9,7,3,3,3,4,7,9,8,9,0,5,4,0,8,9,8,5,3,3,0,2,9,6,4,7,7,8,6,6,8,9,4,6,4,3,2,7,7,9,9,5,2,9,5,2,6,2,5,1,8,6,7,0,6>>,
    <<1,0,9,3,7,4,9,2,4,4,1,6,4,8,3,7,5,9,4,5,3,3,7,9,1,1,3,1,5,6,0,8,6,2,4,3,7,2,4,3,3,1,5,8,5,2,0,3,9,5,2,0,9,9,0,3,0,9,0,7,1,2,1,3,8,8,4,4,5,7,5,5,7,0,8,4,4>>,
    <<2,4,9,8,1,7,0,6,2,4,9,7,3,0,4,9,1,7,3,2,1,2,9,1,1,9,0,5,7,3,1,4,1,0,9,5,2,0,5,4,9,3,0,9,4,9,6,3,9,4,9,6,9,1,3,0,1,0,5,3,5,5,9,5,0,1,8,6,0,2,4,7,2,1,8,6,0>>,
    <<1,0,4,9,8,0,8,2,5,2,4,4,6,9,2,1,5,0,2,9,8,2,6,8,4,3,0,1,9,3,0,6,6,9,2,9,5,2,3,6,0,9,0,5,4,9,0,9,7,9,4,9,7,9,1,9,7,6,7,2,0,9,0,2,2,3,8,6,9,3,9,9,1,1,2,1,6>>,
    <<1,5,6,8,2,3,7,5,2,2,1,1,6,9,4,2,8,4,5,8,9,2,2,8,0,9,1,8,3,5,6,2,3,9,2,6,1,7,4,2,3,7,7,0,6,6,0,0,2,7,7,7,3,2,2,8,4,6,4,6,2,2,7,9,2,0,8,1,0,2,6,9,8,1,7,9,1>>,
    <<4,1,9,1,4,3,8,5,1,4,7,6,7,3,2,4,2,5,6,4,1,1,1,1,6,9,1,8,4,7,3,5,2,9,7,4,7,9,3,1,0,1,4,4,5,7,1,6,3,0,3,4,2,2,1,3,0,3,5,2,3,7,8,5,6,9,3,9,0,2,4,6,4,0,0,1,1>>,
    <<3,9,6,6,7,8,1,8,7,4,3,6,6,5,7,0,8,6,6,1,8,6,6,3,9,6,6,9,2,8,1,3,9,1,4,3,1,7,1,4,8,4,0,0,2,8,4,9,4,1,4,2,0,1,5,5,3,6,3,8,9,6,1,1,2,6,1,7,8,4,2,8,0,0,4,2,1>>
  >>

\* Rescue-Prime round constants (8 rows of 3 literals)
ROUND_CONSTANTS_RS ==
  <<
    <<
      <<4,1,5,5,0,3,1,3,4,6,6,5,4,2,9,8,6,6,8,6,3,8,1,1,8,7,4,7,5,3,8,6,2,2,4,8,9,0,6,1,9,2,1,3,6,6,3,3,6,5,1,4,4,1,3,3,9,6,6,2,3,5,1,5,4,5,8,0,7,6,9,4,7,4,3,1,4>>,
      <<4,6,2,3,5,6,3,6,9,7,6,1,0,6,5,3,4,3,2,2,2,5,7,3,3,4,7,7,8,8,4,3,3,3,5,4,1,4,7,2,4,0,4,1,1,3,1,4,9,4,4,8,8,1,8,8,3,4,1,0,6,4,3,8,7,2,4,0,1,0,6,1,5,3,2,4,3>>,
      <<4,3,3,1,4,4,7,4,5,6,4,7,4,9,9,7,7,2,5,8,4,4,8,8,5,7,3,6,7,2,9,9,7,0,0,9,6,0,9,5,5,4,0,7,3,6,2,4,3,2,1,0,5,7,1,0,7,8,0,0,2,4,5,9,2,6,8,3,7,4,5,3,5,6,3,9,6>>
    >>,
    <<
      <<6,6,1,0,2,4,8,3,6,7,7,1,2,7,4,7,4,1,7,4,8,9,7,1,0,3,2,3,7,9,2,6,7,2,9,2,4,2,9,1,0,1,5,4,4,1,9,8,0,2,6,0,8,2,8,5,0,3,7,6,4,5,0,5,8,0,2,5,4,4,3,0,2,1,3,3>>,
      <<4,8,9,0,2,8,3,5,9,6,9,0,4,8,7,2,7,9,4,9,1,5,7,3,1,2,8,4,5,5,2,9,3,5,6,6,0,9,9,7,5,9,9,6,1,0,2,7,2,4,7,8,6,7,0,6,4,9,3,6,1,5,0,6,0,5,3,3,2,7,8,8,2,6,8,8,2>>,
      <<4,8,0,2,0,4,3,0,7,9,8,2,1,3,3,3,1,7,1,4,2,6,5,1,3,6,8,7,2,9,6,0,0,6,7,6,6,5,3,3,9,9,6,8,7,8,5,8,0,7,6,1,7,8,9,5,9,1,2,9,6,5,2,1,0,3,1,8,8,3,3,5,0,6,0,3,3>>
    >>,
    <<
      <<4,6,8,5,2,0,9,2,1,2,1,7,8,3,0,4,8,1,2,9,0,5,4,0,1,5,2,0,9,2,9,2,2,8,5,4,5,4,3,3,6,6,2,8,0,0,7,8,1,4,2,7,2,3,7,1,5,8,8,1,7,9,9,3,3,7,8,4,5,5,6,5,5,1,0,2,7>>,
      <<1,8,2,8,5,5,2,9,9,9,1,4,0,0,2,8,9,4,6,0,5,5,8,4,4,2,0,8,2,0,9,7,3,8,4,2,0,9,9,0,9,1,1,1,3,5,8,7,2,2,0,8,8,7,7,7,1,7,0,6,3,0,5,1,7,0,0,4,4,4,5,0,4,2,4,0,1>>,
      <<3,9,7,1,5,2,4,0,1,2,1,7,1,7,0,3,3,4,0,3,9,7,6,2,0,6,0,1,4,7,4,5,1,6,5,5,6,6,8,3,1,9,8,7,9,1,2,6,8,4,2,7,5,6,6,1,2,6,7,9,6,1,7,9,4,7,9,8,5,4,4,8,7,1,3,2,5>>
    >>,
    <<
      <<3,9,1,2,9,4,9,4,6,4,1,6,5,9,5,7,9,6,9,3,1,2,9,2,7,0,1,4,9,0,2,8,8,3,8,2,6,7,3,1,9,0,0,1,6,0,0,8,1,7,7,6,0,3,4,5,5,5,0,3,1,0,6,5,7,2,5,3,4,6,4,2,8,2,4,8,1>>,
      <<1,6,4,9,8,4,7,8,0,2,6,5,4,7,0,1,2,1,9,8,3,1,1,1,8,2,7,3,0,1,3,4,2,7,1,6,5,1,4,6,5,7,2,5,5,7,5,7,3,4,9,9,0,9,2,8,0,6,4,8,7,9,9,9,4,7,7,3,5,8,4,9,5,5,1,4,7>>,
      <<1,5,5,3,8,0,6,3,4,7,3,7,9,7,7,3,6,7,4,8,7,2,5,2,7,6,9,9,6,8,4,7,2,8,1,9,4,7,2,1,8,1,8,6,0,7,4,8,4,2,6,9,8,7,2,7,6,4,9,6,1,8,9,6,2,5,7,6,3,9,9,1,4,8,4,0,6>>
    >>,
    <<
      <<1,2,1,0,1,0,7,3,4,1,1,6,0,9,4,1,6,1,2,7,4,9,0,8,1,4,8,6,1,9,6,6,2,7,2,0,2,0,5,2,3,5,8,7,2,0,7,2,8,4,1,1,4,4,4,5,4,5,7,7,7,0,7,4,1,3,9,7,0,4,4,1,2,2,1,6,9>>,
      <<4,1,1,9,1,4,5,7,2,3,8,6,9,6,9,0,9,6,2,9,5,3,4,7,3,4,1,2,0,0,9,4,7,7,6,0,4,2,5,2,6,5,3,4,8,9,8,9,2,9,7,4,9,7,6,7,4,5,4,2,4,6,2,6,8,8,5,9,6,8,7,5,9,5,2,0,6>>,
      <<1,4,4,6,1,6,1,2,7,0,8,7,6,1,7,9,7,0,0,0,5,4,7,4,8,9,4,9,4,2,5,8,0,4,0,2,8,3,4,9,0,4,6,9,8,4,3,6,6,9,9,8,2,7,5,0,2,4,8,1,9,1,8,5,4,4,6,2,9,1,5,9,9,4,2,6,9>>
    >>,
    <<
      <<2,1,4,5,7,5,4,2,9,1,5,9,8,7,2,8,9,6,6,3,0,2,2,4,1,4,3,3,1,2,2,7,5,7,8,9,6,8,0,7,4,1,3,7,2,9,9,2,1,4,2,3,2,7,4,0,6,4,8,2,0,1,3,9,3,0,5,8,2,6,2,7,2,7,7,8,7>>,
      <<2,9,9,1,0,9,6,8,8,7,5,4,5,3,4,5,4,1,1,4,2,5,8,2,8,5,1,9,7,5,4,6,3,0,6,0,5,8,2,6,4,3,3,7,3,8,0,1,6,9,2,6,1,4,0,3,6,7,7,1,5,5,8,6,8,1,1,6,3,8,0,9,5,3,1,7,7>>,
      <<1,8,9,8,0,9,3,9,7,9,8,8,7,9,5,1,3,4,5,6,6,2,4,6,8,8,9,4,5,5,1,1,5,1,7,6,4,0,4,8,0,8,1,6,5,7,2,7,7,4,9,2,5,0,5,6,0,1,5,4,7,8,3,1,4,6,4,0,4,4,0,3,0,7,3,2>>
    >>,
    <<
      <<4,8,4,8,9,8,7,1,7,1,3,4,0,6,6,0,9,0,2,1,6,5,9,2,5,6,6,9,4,5,5,1,6,3,1,6,8,8,6,9,5,6,2,8,7,4,1,7,3,5,4,6,7,4,2,3,6,2,5,8,3,4,7,2,5,4,3,9,7,7,3,2,3,9,4,2,0>>,
      <<1,5,8,1,2,0,4,3,6,5,8,4,5,0,1,8,5,5,4,1,6,5,1,4,4,7,4,1,6,1,9,8,3,6,3,5,5,2,3,0,0,8,8,8,0,9,2,2,3,8,8,8,2,7,7,4,8,6,0,1,9,1,2,5,1,1,6,6,4,2,4,5,7,4,1,0,3>>,
      <<2,5,1,9,2,7,3,3,2,7,1,2,6,9,0,0,0,0,3,1,2,7,8,3,1,3,4,3,8,7,6,4,7,0,3,3,0,4,2,9,3,5,0,5,3,5,6,7,6,4,0,1,9,3,0,0,9,3,3,8,3,3,5,8,4,2,7,8,0,9,5,0,5,7,2,1,1>>
    >>,
    <<
      <<5,1,4,4,9,9,7,3,9,5,9,9,9,9,0,4,3,7,8,1,0,1,3,6,9,2,2,7,7,6,4,2,8,6,4,8,6,5,7,8,8,6,3,5,6,3,6,4,4,2,6,1,2,7,0,9,4,4,6,6,1,1,2,7,4,6,7,7,3,9,8,8,7,5,7,1,5>>,
      <<7,3,3,5,1,1,3,0,0,1,1,5,3,5,4,6,9,8,8,9,7,3,7,5,8,7,5,8,6,4,2,3,4,9,5,4,3,5,7,5,2,7,6,0,1,4,2,5,1,2,7,0,9,7,8,5,1,9,8,9,9,0,5,9,2,4,5,0,3,1,0,7,6,6,5,1>>,
      <<3,8,0,7,1,6,6,2,1,5,8,0,9,1,4,4,7,9,6,7,5,1,8,9,1,3,5,8,0,2,3,2,8,0,1,2,4,7,2,0,5,1,6,3,0,0,3,8,7,1,0,8,6,3,6,5,5,4,0,0,0,4,9,6,4,7,1,7,9,3,7,5,9,4,5,1,5>>
    >>
  >>

\* literals of the shared MDS matrix
MDS_LITERALS ==
  <<
    <<
      <<2,7,8,5,4,9,8,8,7,5,0,6,3,0,9,5,9,1,7,0,3,3,7,2,3,9,7,8,0,5,9,7,1,4,4,0,2,7,2,2,4,7,1,5,0,2,3,8,1,1,9,6,0,9,9,2,6,5,9,7,0,6,8,7,8,2,6,8,3,5,5,0,3,9,1,8,1>>,
      <<2,5,1,4,6,6,9,5,2,6,0,7,4,4,5,0,8,0,5,9,1,0,0,6,2,4,9,8,2,4,6,1,9,7,0,6,9,0,1,6,6,1,5,7,7,2,2,4,7,4,7,6,7,5,6,5,2,4,3,6,5,2,1,6,4,0,7,7,4,8,7,2,6,9,0,5,5>>,
      <<2,0,0,4,5,3,5,9,0,4,1,2,1,6,1,2,3,6,6,7,7,4,9,8,4,8,8,8,1,8,6,3,9,6,5,2,6,0,4,4,3,6,8,4,6,8,1,5,0,9,2,7,1,0,9,3,0,1,6,1,8,2,9,3,2,4,3,5,5,2,0,5,1,9,5,8,6>>
    >>,
    <<
      <<1,4,4,8,9,1,1,6,5,0,2,2,9,3,8,6,5,4,6,5,1,9,5,6,2,0,7,0,5,0,9,8,7,0,2,5,6,9,1,4,9,9,6,2,1,6,6,9,9,3,5,1,8,9,3,3,9,5,2,3,3,9,7,8,6,9,1,7,8,3,6,5,0,3,8,7,5>>,
      <<1,3,1,2,5,4,2,3,9,6,6,9,4,0,6,5,4,3,3,2,7,1,1,8,8,7,5,7,5,9,4,0,1,1,6,8,2,9,9,4,4,6,6,3,2,6,7,4,1,3,3,3,0,1,8,1,8,7,7,0,1,3,0,5,7,6,9,3,1,8,6,3,6,1,5,3,9>>,
      <<3,7,7,8,1,9,0,4,4,9,6,9,4,9,9,6,2,1,2,7,4,7,7,2,3,0,9,7,3,4,3,2,2,1,7,8,9,2,3,7,9,9,3,1,2,1,4,2,8,9,7,5,0,8,5,2,4,9,8,7,1,3,8,8,4,0,7,5,7,9,4,7,0,7,2,0,7>>
    >>,
    <<
      <<1,3,6,2,6,9,1,3,8,9,5,2,9,8,9,3,8,2,6,5,5,4,5,2,6,4,9,5,2,4,0,1,6,1,5,8,3,2,2,9,9,2,2,8,2,6,9,9,8,2,0,3,2,6,7,9,0,7,6,9,3,7,5,7,1,8,8,3,2,8,0,7,0,5,1,9,6>>,
      <<1,9,6,1,0,6,2,0,0,1,7,1,7,1,2,4,8,7,3,7,7,9,7,5,3,8,6,0,3,6,9,8,5,3,6,5,8,0,6,0,8,4,9,3,8,4,0,3,8,3,0,5,4,0,7,3,7,7,3,1,4,9,3,8,6,6,2,5,3,7,2,8,2,2,7,2>>,
      <<3,9,1,7,8,3,7,1,3,6,4,1,7,9,3,9,6,6,9,3,8,7,4,7,3,3,8,1,9,3,7,6,4,9,1,0,7,6,6,3,3,7,2,0,3,9,5,2,2,9,9,5,8,1,0,0,5,3,0,4,8,4,8,6,4,6,9,5,8,6,7,7,3,1,7,9,6>>
    >>
  >>

\* the literals of the three tables
SourceLiterals ==
  {ROUND_CONSTANTS_PS[k] : k \in DOMAIN ROUND_CONSTANTS_PS}
    \cup {ROUND_CONSTANTS_RS[k][l] : k \in DOMAIN ROUND_CONSTANTS_RS, l \in 1 .. 3}
    \cup {MDS_LITERALS[k][l] : k \in 1 .. 3, l \in 1 .. 3}

\* the digit loop of from_str_vartime over s[a .. b] in the field of order
\* P: acc * 10 + digit, the steps split in halves
RECURSIVE ParseDigits(_, _, _, _)
ParseDigits(s, a, b, acc) ==
  IF a > b THEN acc
  ELSE IF a = b THEN (acc * (10 % P) + (s[a] % P)) % P
  ELSE CHOOSE r \in { ParseDigits(s, (a + b) \div 2 + 1, b, m) :
                        m \in {ParseDigits(s, a, (a + b) \div 2, acc)} } : TRUE

\* the table literals parsed in the field of order P
Parsed == [s \in SourceLiterals |-> ParseDigits(s, 1, Len(s), 0)]

\* the character of s that is k places from the end, 0 before the start
DigitFromEnd(s, k) == IF k < Len(s) THEN s[Len(s) - k] ELSE 0

\* the digit loop of from_str_vartime in Fr: a literal of at most 4 * NLimbs
\* characters is its own base-10000 digits, reduced once
ParseFr(s) ==
  IF Len(s) <= 4 * NLimbs
  THEN BigReduce([j \in 1 .. NLimbs + 1 |->
                    IF j <= NLimbs
                    THEN 1000 * DigitFromEnd(s, 4 * j - 1) + 100 * DigitFromEnd(s, 4 * j - 2)
                           + 10 * DigitFromEnd(s, 4 * j - 3) + DigitFromEnd(s, 4 * j - 4)
                    ELSE 0])
  ELSE DecRange(s, 1, Len(s), BigZero)

\* PrimeField::from_str_vartime: None on the empty string, on a leading
\* zero and on a non-digit; otherwise the congruent field element
from_str_vartime(s) ==
  IF s = <<>> THEN FieldNone
  ELSE IF s = <<0>> THEN FieldZero
  ELSE IF Head(s) = 0 THEN FieldNone
  ELSE IF \E k \in 1 .. Len(s) : s[k] \notin 0 .. 9 THEN FieldNone
  ELSE IF OverFr THEN ParseFr(s)
  ELSE IF s \in SourceLiterals THEN Parsed[s]
  ELSE ParseDigits(s, 1, Len(s), 0)


\* ------------------------------------------------------------------------
\* Specifications (struct Poseidon / struct RescuePrime)
\* ------------------------------------------------------------------------
\* PoseidonCircuit::configure: full_rounds, partial_rounds, n, alpha
FULL_ROUNDS == 8
PARTIAL_ROUNDS == 57
N == 195
\* RescueCircuit::configure: rounds, alpha, alpha_inv (= inverse(5, p - 1))
ROUNDS == 4
ALPHA == 5
ALPHA_INV == 11

\* header comment: Rescue-Prime alpha = 3, alpha_inv = 12297829382473034371
\* (the exponent taken modulo P - 1)
DOC_ALPHA_RS == 3
DOC_ALPHA_INV_RS == 13

\* get_common_params: the MDS matrix parsed from its literals
get_common_params ==
  [a \in 1 .. 3 |-> [b \in 1 .. 3 |-> from_str_vartime(MDS_LITERALS[a][b])]]

Lanes == 1 .. 3

PoseidonParams(fr, pr, al) ==
  [full_rounds |-> fr, partial_rounds |-> pr, n |-> N, rounds |-> 0,
   alpha |-> al, alpha_inv |-> 0, field |-> "F19"]

RescueParams(r, al, ai) ==
  [full_rounds |-> 0, partial_rounds |-> 0, n |-> 0, rounds |-> r,
   alpha |-> al, alpha_inv |-> ai, field |-> "F19"]

\* initial states: every triple over 0 .. MaxInput, and the placeholder
\* triple of without_witnesses (PoseidonCircuit::default)
KnownInputs == {<<a, b, c>> : a \in 0 .. MaxInput, b \in 0 .. MaxInput, c \in 0 .. MaxInput}
without_witnesses == <<Unknown, Unknown, Unknown>>
Inputs == KnownInputs \cup {without_witnesses}

\* the initial state of main
MainInput == <<0, 1, 2>>


\* ------------------------------------------------------------------------
\* Backend: cells, selectors, gates
\* ------------------------------------------------------------------------
\* region.assign_advice on the three state columns of one row
AssignRow(adv, row, vals) ==
  IF row + 1 \in DOMAIN adv THEN [adv EXCEPT ![row + 1] = vals]
  ELSE Append(adv, vals)

\* the constants assigned on the row after the one of the selector
AssignFixed_next_row(fx, row, vals) == ((row + 1) :> vals) @@ fx

\* region.assign_fixed on the three constant columns of one row
AssignFixed(fx, row, vals) == (row :> vals) @@ fx

SelAt(s, row) == IF row \in DOMAIN s THEN s[row] ELSE {}

\* a selector enabled only when the witness is known
Enable_known_only(s, name, row) ==
  IF input = without_witnesses THEN s
  ELSE (row :> (SelAt(s, row) \cup {name})) @@ s

\* Selector::enable
Enable(s, name, row) == (row :> (SelAt(s, row) \cup {name})) @@ s

\* an unassigned fixed cell reads as zero
FixedAt(fx, row) == IF row \in DOMAIN fx THEN fx[row] ELSE [l \in 1 .. 3 |-> FieldZero]

\* AssignedCell::value() of the handle of lane l
HandleValue(adv, st, l) == adv[st[l] + 1][l]

\* the product with the transposed matrix
MdsLane_transposed(mds, k, s) ==
  FAdd(FAdd(FMul(s[1], mds[1][k]), FMul(s[2], mds[2][k])), FMul(s[3], mds[3][k]))

\* the product without the term of lane 1
MdsLane_without_lane1(mds, k, s) ==
  FAdd(FMul(s[1], mds[k][1]), FMul(s[3], mds[k][3]))

\* s0 * mds[k][0] + s1 * mds[k][1] + s2 * mds[k][2]
MdsLane(mds, k, s) ==
  FAdd(FAdd(FMul(s[1], mds[k][1]), FMul(s[2], mds[k][2])), FMul(s[3], mds[k][3]))

\* after_ml: zip of the three values, unknown if one of them is
after_ml(mds, s) ==
  IF \E l \in Lanes : s[l] = FieldUnknown THEN [l \in Lanes |-> FieldUnknown]
  ELSE CHOOSE out \in { <<MdsLane(m, 1, v), MdsLane(m, 2, v), MdsLane(m, 3, v)>> :
                          m \in {mds}, v \in {<<s[1], s[2], s[3]>>} } : TRUE

\* the gate polynomials, as relations between a row, the next row and the
\* fixed cells of the row
ARC_constraint(l, cur, next, rc) == FSub(next[l], FAdd(cur[l], rc[l])) = FieldZero

ARC_Gate(cur, next, rc) == \A l \in Lanes : ARC_constraint(l, cur, next, rc)

ML_constraint(k, mds, cur, next) == FSub(next[k], MdsLane(mds, k, cur)) = FieldZero

ML_gate(mds, cur, next) == \A k \in Lanes : ML_constraint(k, mds, cur, next)

Quintic(a) == FMul(FMul(FMul(FMul(a, a), a), a), a)

sbox_constraint(l, cur, next) == FSub(next[l], Quintic(cur[l])) = FieldZero

PS_partial_sbox_gate(cur, next) == sbox_constraint(1, cur, next)

PS_full_sbox_gate(cur, next) == \A l \in Lanes : sbox_constraint(l, cur, next)

RS_sbox_gate(cur, next) == \A l \in Lanes : sbox_constraint(l, cur, next)

\* the inverse S-box constrained on lane 0 only
sbox_inv_constraint_lane0(l, cur, next) ==
  l = 1 => FSub(cur[l], Quintic(next[l])) = FieldZero

sbox_inv_constraint(l, cur, next) == FSub(cur[l], Quintic(next[l])) = FieldZero

RS_sbox_inv_gate(cur, next) == \A l \in Lanes : sbox_inv_constraint(l, cur, next)

\* the constraint of gate g on lane l; the partial S-box gate has a
\* constraint on lane 0 only
ConstraintHolds(g, l, mds, cur, next, rc) ==
  CASE g = "ARC_Gate" -> ARC_constraint(l, cur, next, rc)
    [] g = "ML_gate" -> ML_constraint(l, mds, cur, next)
    [] g = "PS_partial_sbox_gate" -> (l = 1 => sbox_constraint(l, cur, next))
    [] g = "PS_full_sbox_gate" -> sbox_constraint(l, cur, next)
    [] g = "RS_sbox_gate" -> sbox_constraint(l, cur, next)
    [] g = "RS_sbox_inv_gate" -> sbox_inv_constraint(l, cur, next)

GateHolds(g, mds, cur, next, rc) ==
  CASE g = "ARC_Gate" -> ARC_Gate(cur, next, rc)
    [] g = "ML_gate" -> ML_gate(mds, cur, next)
    [] g = "PS_partial_sbox_gate" -> PS_partial_sbox_gate(cur, next)
    [] g = "PS_full_sbox_gate" -> PS_full_sbox_gate(cur, next)
    [] g = "RS_sbox_gate" -> RS_sbox_gate(cur, next)
    [] g = "RS_sbox_inv_gate" -> RS_sbox_inv_gate(cur, next)

\* ------------------------------------------------------------------------
\* The gate polynomials as Expression trees
\* ------------------------------------------------------------------------
\* meta.query_selector, meta.query_advice (lane, rotation), meta.query_fixed
\* and Expression::Constant
SelectorExpr(s) == [op |-> "Selector", name |-> s]

AdviceExpr(l, rot) == [op |-> "Advice", lane |-> l, rotation |-> rot]

FixedExpr(l) == [op |-> "Fixed", lane |-> l]

ConstantExpr(c) == [op |-> "Constant", value |-> c]

\* the operators *, + and - of Expression
ProductExpr(a, b) == [op |-> "Product", left |-> a, right |-> b]

SumExpr(a, b) == [op |-> "Sum", left |-> a, right |-> b]

\* a - b is a + (-b)
NegatedExpr(a) == [op |-> "Negated", inner |-> a]

\* the query multiplied three times
Pow5Expr_cubed(a) == ProductExpr(ProductExpr(a, a), a)

\* a.clone()*a.clone()*a.clone()*a.clone()*a
Pow5Expr(a) == ProductExpr(ProductExpr(ProductExpr(ProductExpr(a, a), a), a), a)

\* a0*mds_k_0 + a1*mds_k_1 + a2*mds_k_2
MdsLaneExpr(mds, k) ==
  SumExpr(SumExpr(ProductExpr(AdviceExpr(1, "cur"), ConstantExpr(mds[k][1])),
                  ProductExpr(AdviceExpr(2, "cur"), ConstantExpr(mds[k][2]))),
          ProductExpr(AdviceExpr(3, "cur"), ConstantExpr(mds[k][3])))

\* the vector of constraints each create_gate closure returns
GatePolynomials(g, mds) ==
  CASE g.name = "ARC_Gate" ->
         [l \in Lanes |->
            ProductExpr(SelectorExpr(g.selector),
                        SumExpr(AdviceExpr(l, "next"),
                                NegatedExpr(SumExpr(AdviceExpr(l, "cur"), FixedExpr(l)))))]
    [] g.name = "ML_gate" ->
         [k \in Lanes |->
            ProductExpr(SelectorExpr(g.selector),
                        SumExpr(AdviceExpr(k, "next"), NegatedExpr(MdsLaneExpr(mds, k))))]
    [] g.name = "PS_partial_sbox_gate" ->
         << ProductExpr(SelectorExpr(g.selector),
                        SumExpr(AdviceExpr(1, "next"),
                                NegatedExpr(Pow5Expr(AdviceExpr(1, "cur"))))) >>
    [] g.name \in {"PS_full_sbox_gate", "RS_sbox_gate"} ->
         [l \in Lanes |->
            ProductExpr(SelectorExpr(g.selector),
                        SumExpr(AdviceExpr(l, "next"),
                                NegatedExpr(Pow5Expr(AdviceExpr(l, "cur")))))]
    [] g.name = "RS_sbox_inv_gate" ->
         [l \in Lanes |->
            ProductExpr(SelectorExpr(g.selector),
                        SumExpr(AdviceExpr(l, "cur"),
                                NegatedExpr(Pow5Expr(AdviceExpr(l, "next")))))]

\* Expression::degree of the backend: a constant has degree 0, a query of a
\* selector or of a column degree 1, a product the sum and a sum the
\* maximum of the degrees of its operands
RECURSIVE Degree(_)
Degree(e) ==
  CASE e.op = "Constant" -> 0
    [] e.op \in {"Selector", "Advice", "Fixed"} -> 1
    [] e.op = "Negated" -> Degree(e.inner)
    [] e.op = "Sum" ->
         IF Degree(e.left) >= Degree(e.right) THEN Degree(e.left) ELSE Degree(e.right)
    [] e.op = "Product" -> Degree(e.left) + Degree(e.right)

\* number of zero bits at the low end of the digits h[1 .. j]
RECURSIVE TrailingZeroBits(_, _)
TrailingZeroBits(h, j) ==
  IF j = 0 THEN 0
  ELSE IF h[j] = 0 THEN 4 + TrailingZeroBits(h, j - 1)
  ELSE IF h[j] % 2 = 1 THEN 0
  ELSE IF h[j] % 4 = 2 THEN 1
  ELSE IF h[j] % 8 = 4 THEN 2
  ELSE 3

\* S of the field: p - 1 = 2^S * t with t odd; p is odd, so the digits of
\* p - 1 are those of p with the last one decremented
TwoAdicity ==
  TrailingZeroBits([ModulusHex EXCEPT ![Len(ModulusHex)] = @ - 1], Len(ModulusHex))

\* let k: u32 = 10 of main: the circuit has 2^k rows
K == 10

\* the largest gate degree d the backend has an evaluation domain for with
\* 2^K rows: the extended domain of 2^K * (d - 1) points must be a subgroup
\* of the 2^S-th roots of unity
MaxGateDegree == 2 ^ (TwoAdicity - K) + 1

\* PoseidonChip::configure: selectors and gates
PoseidonGates ==
  { [name |-> "ARC_Gate", selector |-> "s_add_rcs"],
    [name |-> "ML_gate", selector |-> "s_mds_mul"],
    [name |-> "PS_full_sbox_gate", selector |-> "s_sub_bytes_full"],
    [name |-> "PS_partial_sbox_gate", selector |-> "s_sub_bytes_partial"] }

\* RescueChip::configure: selectors and gates
RescueGates ==
  { [name |-> "ARC_Gate", selector |-> "s_add_rcs"],
    [name |-> "ML_gate", selector |-> "s_mds_mul"],
    [name |-> "RS_sbox_gate", selector |-> "s_sub_bytes"],
    [name |-> "RS_sbox_inv_gate", selector |-> "s_sub_bytes_inv"] }

\* value of a cell named by a copy constraint
CellValue(adv, inst, c) ==
  IF c[1] = "advice" THEN adv[c[3] + 1][c[2]] ELSE inst[c[3] + 1]

\* a gate whose selector is enabled on a row holds between that row and the next
GatesSatisfied(adv, fx, s, gs, mds) ==
  \A r \in DOMAIN s : \A g \in gs :
    g.selector \in s[r] =>
      /\ r + 2 \in DOMAIN adv
      /\ GateHolds(g.name, mds, adv[r + 1], adv[r + 2], FixedAt(fx, r))

\* the two cells of every copy constraint hold the same value
CopiesSatisfied(adv, eq, inst) ==
  \A e \in eq : CellValue(adv, inst, e[1]) = CellValue(adv, inst, e[2])

\* MockProver::verify
MockVerify(adv, fx, s, gs, eq, inst, mds) ==
  \E m \in {mds} : GatesSatisfied(adv, fx, s, gs, m) /\ CopiesSatisfied(adv, eq, inst)

\* ------------------------------------------------------------------------
\* The permutations evaluated directly, outside any circuit
\* ------------------------------------------------------------------------
RECURSIVE RefPow(_, _)
RefPow(x, e) == IF e = 0 THEN 1 ELSE (x * RefPow(x, e - 1)) % P

RefMds(st) ==
  LET m == get_common_params
  IN  [k \in Lanes |-> (m[k][1] * st[1] + m[k][2] * st[2] + m[k][3] * st[3]) % P]

RefAddPs(st, r) ==
  [l \in Lanes |-> (st[l] + from_str_vartime(ROUND_CONSTANTS_PS[3 * r + l])) % P]

RefAddRs(st, row) ==
  [l \in Lanes |-> (st[l] + from_str_vartime(ROUND_CONSTANTS_RS[row + 1][l])) % P]

\* number of rounds a Poseidon schedule runs
PoseidonRoundCount(p) == 2 * (p.full_rounds \div 2) + p.partial_rounds

\* round r of the schedule is a full round
IsFullRound(p, r) ==
  r < p.full_rounds \div 2 \/ r >= p.full_rounds \div 2 + p.partial_rounds

PoseidonRoundRef(st, r, p) ==
  LET a == RefAddPs(st, r)
      b == IF IsFullRound(p, r) THEN [l \in Lanes |-> RefPow(a[l], p.alpha)]
           ELSE <<RefPow(a[1], p.alpha), a[2], a[3]>>
  IN  RefMds(b)

\* rounds a .. b - 1 of the Poseidon schedule applied to st; the range is
\* halved so that the evaluation nests only logarithmically deep
RECURSIVE PoseidonRef(_, _, _, _)
PoseidonRef(st, a, b, p) ==
  IF a >= b THEN st
  ELSE IF b = a + 1 THEN PoseidonRoundRef(st, a, p)
  ELSE CHOOSE out \in
         { PoseidonRef(x, (a + b) \div 2, b, p) :
             x \in {PoseidonRef(st, a, (a + b) \div 2, p)} } : TRUE

\* the two half rounds of a Rescue-Prime round
RescueForwardRef(st, r, p) ==
  RefAddRs(RefMds([l \in Lanes |-> RefPow(st[l], p.alpha)]), 2 * r)

RescueInverseRef(st, r, p) ==
  RefAddRs(RefMds([l \in Lanes |-> RefPow(st[l], p.alpha_inv)]), 2 * r + 1)

RescueRoundRef(st, r, p) ==
  CHOOSE out \in {RescueInverseRef(h, r, p) : h \in {RescueForwardRef(st, r, p)}} : TRUE

\* rounds a .. b - 1 of the Rescue-Prime schedule applied to st
RECURSIVE RescueRef(_, _, _, _)
RescueRef(st, a, b, p) ==
  IF a >= b THEN st
  ELSE IF b = a + 1 THEN RescueRoundRef(st, a, p)
  ELSE CHOOSE out \in
         { RescueRef(x, (a + b) \div 2, b, p) :
             x \in {RescueRef(st, a, (a + b) \div 2, p)} } : TRUE

PermRef(k, p, st) ==
  IF k = "poseidon" THEN PoseidonRef(st, 0, PoseidonRoundCount(p), p)
  ELSE RescueRef(st, 0, p.rounds, p)

\* ------------------------------------------------------------------------
\* Initial states
\* ------------------------------------------------------------------------
PoseidonScenarios(alphas, inputs) ==
  { [kind |-> "poseidon", params |-> PoseidonParams(fr, pr, al), input |-> x] :
      fr \in 0 .. MaxFullRounds, pr \in 0 .. MaxPartialRounds, al \in alphas, x \in inputs }

RescueScenarios(alphas, inverses, inputs) ==
  { [kind |-> "rescue", params |-> RescueParams(r, al, ai), input |-> x] :
      r \in 0 .. MaxRounds, al \in alphas, ai \in inverses, x \in inputs }

\* the prover followed the witness generator
NoDeviation == [act |-> "none", row |-> 0, lane |-> 0]

\* the two specifications of the program itself, on the initial state of main
ProgramScenarios ==
  { [kind |-> "poseidon", params |-> PoseidonParams(FULL_ROUNDS, PARTIAL_ROUNDS, ALPHA),
     input |-> MainInput],
    [kind |-> "rescue", params |-> RescueParams(ROUNDS, ALPHA, ALPHA_INV),
     input |-> MainInput] }

\* no run has been put aside
NoOther == [done |-> <<>>, susp |-> <<>>]

InitFrom(scenarios) ==
  /\ \E sc \in scenarios :
       /\ kind = sc.kind
       /\ params = sc.params
       /\ input = sc.input
  /\ pc = "start"
  /\ i = 0
  /\ step = "none"
  /\ offset = 0
  /\ constant_idx = 0
  /\ state = <<>>
  /\ advice = <<>>
  /\ fixed = <<>>
  /\ sel = <<>>
  /\ gates = {}
  /\ equality = {}
  /\ result = <<>>
  /\ instance = <<>>
  /\ verdict = "none"
  /\ deviation = NoDeviation
  /\ other = NoOther

\* RescueCircuit::configure: the literal of alpha_inv
ALPHA_INV_LITERAL ==
  <<2,0,9,7,4,3,5,0,0,7,0,0,5,0,4,7,6,1,9,1,7,7,9,0,9,6,2,0,3,2,7,4,3,8,6,3,3,5,0,7,6,2,2,1,0,0,0,2,1,1,0,5,5,1,2,9,0,4,1,4,6,3,4,7,9,9,7,5,4,3,2,4,7,3,8,0,5>>

\* header comment: the documented alpha_inv of Rescue-Prime
DOC_ALPHA_INV_LITERAL ==
  <<1,2,2,9,7,8,2,9,3,8,2,4,7,3,0,3,4,3,7,1>>
\* the words of main's initial state as elements of Fr (F::from)
MainInputFr == [l \in Lanes |-> BigFrom(MainInput[l])]

\* a specification instantiated over Fr
InFr(p) == [p EXCEPT !.field = "Fr"]

\* the program over Fr: the two circuits of main; the Poseidon circuit with
\* one partial round more than the table holds; the Rescue-Prime circuit
\* with the exponents of the header comment
FrScenarios ==
  { [kind |-> "poseidon", input |-> MainInputFr,
     params |-> InFr(PoseidonParams(FULL_ROUNDS, pr, BigFrom(ALPHA)))] :
      pr \in {PARTIAL_ROUNDS, PARTIAL_ROUNDS + 1} }
  \cup
  { [kind |-> "rescue", input |-> MainInputFr,
     params |-> InFr(RescueParams(ROUNDS, BigFrom(pair[1]), BigUintFromStr(pair[2])))] :
      pair \in { <<ALPHA, ALPHA_INV_LITERAL>>, <<DOC_ALPHA_RS, DOC_ALPHA_INV_LITERAL>> } }

\* the exponents of PoseidonCircuit::configure and RescueCircuit::configure
Init ==
  InitFrom(PoseidonScenarios({ALPHA}, Inputs) \cup RescueScenarios({ALPHA}, {ALPHA_INV}, Inputs)
             \cup ProgramScenarios)

\* main over the field of the program
InitFr == InitFrom(FrScenarios)

\* the same specifications, run on the initial state of main
InitMain ==
  InitFrom(PoseidonScenarios({ALPHA}, {MainInput})
             \cup RescueScenarios({ALPHA}, {ALPHA_INV}, {MainInput}))

\* the specifications a chip can be configured with: the exponents of the
\* two configure functions and those of the header comment
InitChip ==
  InitFrom(PoseidonScenarios({ALPHA, DOC_ALPHA_RS}, {MainInput})
             \cup RescueScenarios({ALPHA, DOC_ALPHA_RS}, {ALPHA_INV, DOC_ALPHA_INV_RS},
                                  {MainInput}))

\* the chip specifications, and Rescue-Prime on initial states whose first
\* two words range over the field, with the exponents of the two configure
\* functions and of the header comment and with a second inverse of 5
SboxScenarios ==
  { [kind |-> "rescue", params |-> RescueParams(r, al, ai),
     input |-> <<a, b, MainInput[3]>>] :
      r \in 1 .. MaxSboxRounds, al \in {ALPHA, DOC_ALPHA_RS},
      ai \in {ALPHA_INV, ALPHA_INV + (P - 1), DOC_ALPHA_INV_RS}, a \in F, b \in F }

InitSbox ==
  InitFrom(PoseidonScenarios({ALPHA, DOC_ALPHA_RS}, {MainInput})
             \cup RescueScenarios({ALPHA, DOC_ALPHA_RS}, {ALPHA_INV, DOC_ALPHA_INV_RS},
                                  {MainInput})
             \cup SboxScenarios)

\* the round counts of the two configure functions and their neighbours, on
\* the initial state of main: the tables are those of the program
TableScenarios ==
  { [kind |-> "poseidon", params |-> PoseidonParams(fr, pr, ALPHA), input |-> MainInput] :
      fr \in FULL_ROUNDS - MaxRoundShift .. FULL_ROUNDS + MaxRoundShift,
      pr \in PARTIAL_ROUNDS - MaxRoundShift .. PARTIAL_ROUNDS + MaxRoundShift }
  \cup
  { [kind |-> "rescue", params |-> RescueParams(r, ALPHA, ALPHA_INV), input |-> MainInput] :
      r \in ROUNDS - MaxRoundShift .. ROUNDS + MaxRoundShift }

InitTable == InitFrom(TableScenarios)

\* the two circuits of main side by side: a Poseidon circuit, and a
\* Rescue-Prime circuit that has not started; up to MaxPairRounds full
\* rounds on either side of up to MaxPairRounds partial rounds, up to
\* MaxPairRounds Rescue-Prime rounds, and the Rescue-Prime count that
\* exhausts its table
PairRescueRounds == (0 .. MaxPairRounds) \cup {ROUNDS + 1}

InitPair ==
  /\ \E fr \in 0 .. 2 * MaxPairRounds, pr \in 0 .. MaxPairRounds, r \in PairRescueRounds :
       /\ kind = "poseidon"
       /\ params = PoseidonParams(fr, pr, ALPHA)
       /\ other = [done |-> <<>>,
                   susp |-> << [kind |-> "rescue", params |-> RescueParams(r, ALPHA, ALPHA_INV),
                                input |-> MainInput, pc |-> "start", i |-> 0,
                                step |-> "none", offset |-> 0, constant_idx |-> 0,
                                state |-> <<>>, advice |-> <<>>, fixed |-> <<>>,
                                sel |-> <<>>, gates |-> {}, equality |-> {},
                                result |-> <<>>, instance |-> <<>>, verdict |-> "none",
                                deviation |-> NoDeviation] >>]
  /\ input = MainInput
  /\ pc = "start"
  /\ i = 0
  /\ step = "none"
  /\ offset = 0
  /\ constant_idx = 0
  /\ state = <<>>
  /\ advice = <<>>
  /\ fixed = <<>>
  /\ sel = <<>>
  /\ gates = {}
  /\ equality = {}
  /\ result = <<>>
  /\ instance = <<>>
  /\ verdict = "none"
  /\ deviation = NoDeviation

\* ------------------------------------------------------------------------
\* Circuit::configure and the start of permute
\* ------------------------------------------------------------------------
\* configure: get_common_params parses the MDS literals (unwrap), the chip
\* attaches its four gates; nothing else is examined
Configure ==
  /\ pc = "start"
  /\ IF \E a \in Lanes, b \in Lanes : get_common_params[a][b] = FieldNone
     THEN pc' = "panic" /\ gates' = gates
     ELSE /\ pc' = "configured"
          /\ gates' = IF kind = "poseidon" THEN PoseidonGates ELSE RescueGates
  /\ UNCHANGED <<kind, params, input, i, step, offset, constant_idx, state, advice,
                 fixed, sel, equality, result, instance, verdict, deviation, other>>

\* the initial row is filled from a value left behind by an earlier run
PermuteBegin_stale_input ==
  /\ pc = "configured"
  /\ offset' = 0
  /\ constant_idx' = 0
  /\ advice' = AssignRow(advice, 0,
                         IF other.done = <<>> THEN input ELSE [input EXCEPT ![1] = FAdd(@, 1)])
  /\ state' = <<0, 0, 0>>
  /\ i' = 0
  /\ pc' = IF kind = "poseidon" THEN "loop1" ELSE "rounds"
  /\ step' = IF kind = "poseidon" THEN "arc" ELSE "sb"
  /\ UNCHANGED <<kind, params, input, fixed, sel, gates, equality, result,
                 instance, verdict, deviation, other>>

\* permute: the initial state row
PermuteBegin ==
  /\ pc = "configured"
  /\ offset' = 0
  /\ constant_idx' = 0
  /\ advice' = AssignRow(advice, 0, input)
  /\ state' = <<0, 0, 0>>
  /\ i' = 0
  /\ pc' = IF kind = "poseidon" THEN "loop1" ELSE "rounds"
  /\ step' = IF kind = "poseidon" THEN "arc" ELSE "sb"
  /\ UNCHANGED <<kind, params, input, fixed, sel, gates, equality, result,
                 instance, verdict, deviation, other>>

\* ------------------------------------------------------------------------
\* PoseidonChip::permute
\* ------------------------------------------------------------------------
\* bound of the for loop the generator is in
LoopBound(loop) ==
  IF loop = "loop2" THEN params.partial_rounds ELSE params.full_rounds \div 2

\* only the first loop runs full rounds
full_round_first_loop(loop) == loop = "loop1"

\* argument full_round of poseidon_round in the loop
full_round(loop) == loop \in {"loop1", "loop3"}

InPoseidonRound ==
  /\ kind = "poseidon"
  /\ pc \in {"loop1", "loop2", "loop3"}
  /\ i < LoopBound(pc)

\* ROUND_CONSTANTS_PS[*constant_idx + k] is inside the table and parses
PsConstantsOk ==
  /\ constant_idx + 3 <= Len(ROUND_CONSTANTS_PS)
  /\ \A l \in Lanes : from_str_vartime(ROUND_CONSTANTS_PS[constant_idx + l]) # FieldNone

\* rc0, rc1, rc2 of poseidon_round with every index equal to *constant_idx
PsRoundConstants_first_only(idx) ==
  [l \in Lanes |-> from_str_vartime(ROUND_CONSTANTS_PS[idx + 1])]

\* rc0, rc1, rc2 of poseidon_round: the literals at idx, idx + 1, idx + 2
PsRoundConstants(idx) ==
  [l \in Lanes |-> from_str_vartime(ROUND_CONSTANTS_PS[idx + l])]

\* poseidon_round, first part: constants, ARC selector, ARC output row
PsArc ==
  /\ InPoseidonRound
  /\ step = "arc"
  /\ PsConstantsOk
  /\ LET rc == PsRoundConstants(constant_idx)
         after_arc == [l \in Lanes |-> VAdd(HandleValue(advice, state, l), rc[l])]
     IN  /\ fixed' = AssignFixed(fixed, offset, rc)
         /\ sel' = Enable(sel, "s_add_rcs", offset)
         /\ constant_idx' = constant_idx + 3
         /\ offset' = offset + 1
         /\ advice' = AssignRow(advice, offset + 1, after_arc)
         /\ state' = [l \in Lanes |-> offset + 1]
  /\ step' = "sbox"
  /\ UNCHANGED <<kind, params, input, pc, i, gates, equality, result, instance,
                 verdict, deviation, other>>

\* poseidon_round, full_round == true: S-box on the three lanes
PsSboxFull ==
  /\ InPoseidonRound
  /\ step = "sbox"
  /\ full_round(pc)
  /\ LET after_sb == [l \in Lanes |-> VPow5(HandleValue(advice, state, l))]
     IN  /\ sel' = Enable(sel, "s_sub_bytes_full", offset)
         /\ offset' = offset + 1
         /\ advice' = AssignRow(advice, offset + 1, after_sb)
         /\ state' = [l \in Lanes |-> offset + 1]
  /\ step' = "mds"
  /\ UNCHANGED <<kind, params, input, pc, i, constant_idx, fixed, gates, equality,
                 result, instance, verdict, deviation, other>>

\* the two lanes a partial round passes through are not copied to the S-box
\* output row
PsSboxPartial_lanes_not_copied ==
  /\ InPoseidonRound
  /\ step = "sbox"
  /\ ~full_round(pc)
  /\ LET row == << VPow5(HandleValue(advice, state, 1)), FieldZero, FieldZero >>
     IN  /\ sel' = Enable(sel, "s_sub_bytes_partial", offset)
         /\ offset' = offset + 1
         /\ advice' = AssignRow(advice, offset + 1, row)
         /\ state' = [state EXCEPT ![1] = offset + 1]
  /\ step' = "mds"
  /\ UNCHANGED <<kind, params, input, pc, i, constant_idx, fixed, gates, equality,
                 result, instance, verdict, deviation, other>>

\* the partial round enables the selector of the full S-box as well
PsSboxPartial_both_selectors ==
  /\ InPoseidonRound
  /\ step = "sbox"
  /\ ~full_round(pc)
  /\ LET row == << VPow5(HandleValue(advice, state, 1)),
                   HandleValue(advice, state, 2),
                   HandleValue(advice, state, 3) >>
     IN  /\ sel' = Enable(Enable(sel, "s_sub_bytes_full", offset), "s_sub_bytes_partial", offset)
         /\ offset' = offset + 1
         /\ advice' = AssignRow(advice, offset + 1, row)
         /\ state' = [state EXCEPT ![1] = offset + 1]
  /\ step' = "mds"
  /\ UNCHANGED <<kind, params, input, pc, i, constant_idx, fixed, gates, equality,
                 result, instance, verdict, deviation, other>>

\* poseidon_round, full_round == false: S-box on lane 0, the other two
\* lanes assigned with the values of their handles; only state[0] is updated
PsSboxPartial ==
  /\ InPoseidonRound
  /\ step = "sbox"
  /\ ~full_round(pc)
  /\ LET row == << VPow5(HandleValue(advice, state, 1)),
                   HandleValue(advice, state, 2),
                   HandleValue(advice, state, 3) >>
     IN  /\ sel' = Enable(sel, "s_sub_bytes_partial", offset)
         /\ offset' = offset + 1
         /\ advice' = AssignRow(advice, offset + 1, row)
         /\ state' = [state EXCEPT ![1] = offset + 1]
  /\ step' = "mds"
  /\ UNCHANGED <<kind, params, input, pc, i, constant_idx, fixed, gates, equality,
                 result, instance, verdict, deviation, other>>

\* MixLayer keeping the handles of lanes 1 and 2
PsMds_lane0_handle_only ==
  /\ InPoseidonRound
  /\ step = "mds"
  /\ LET s == [l \in Lanes |-> HandleValue(advice, state, l)]
     IN  /\ sel' = Enable(sel, "s_mds_mul", offset)
         /\ offset' = offset + 1
         /\ advice' = AssignRow(advice, offset + 1, after_ml(get_common_params, s))
         /\ state' = [state EXCEPT ![1] = offset + 1]
  /\ step' = "arc"
  /\ i' = i + 1
  /\ UNCHANGED <<kind, params, input, pc, constant_idx, fixed, gates, equality,
                 result, instance, verdict, deviation, other>>

\* poseidon_round, MixLayer; the round ends and the loop counter advances
PsMds ==
  /\ InPoseidonRound
  /\ step = "mds"
  /\ LET s == [l \in Lanes |-> HandleValue(advice, state, l)]
     IN  /\ sel' = Enable(sel, "s_mds_mul", offset)
         /\ offset' = offset + 1
         /\ advice' = AssignRow(advice, offset + 1, after_ml(get_common_params, s))
         /\ state' = [l \in Lanes |-> offset + 1]
  /\ step' = "arc"
  /\ i' = i + 1
  /\ UNCHANGED <<kind, params, input, pc, constant_idx, fixed, gates, equality,
                 result, instance, verdict, deviation, other>>

\* a for loop of permute is exhausted: the next loop starts
PsNextLoop ==
  /\ kind = "poseidon"
  /\ pc \in {"loop1", "loop2"}
  /\ i = LoopBound(pc)
  /\ pc' = IF pc = "loop1" THEN "loop2" ELSE "loop3"
  /\ i' = 0
  /\ UNCHANGED <<kind, params, input, step, offset, constant_idx, state, advice,
                 fixed, sel, gates, equality, result, instance, verdict, deviation, other>>

\* ------------------------------------------------------------------------
\* RescueChip::permute
\* ------------------------------------------------------------------------
InRescueRound ==
  /\ kind = "rescue"
  /\ pc = "rounds"
  /\ i < params.rounds

\* the same table row for both injections of a round
InjectIdx_once_per_round == 2 * i

\* argument idx of inject_rcs: 2*round, then 2*round+1
InjectIdx == IF step = "rc1" THEN 2 * i ELSE 2 * i + 1

\* ROUND_CONSTANTS_RS[idx] is inside the table and its literals parse
RsConstantsOk ==
  /\ InjectIdx + 1 <= Len(ROUND_CONSTANTS_RS)
  /\ \A l \in Lanes : from_str_vartime(ROUND_CONSTANTS_RS[InjectIdx + 1][l]) # FieldNone

\* rc0, rc1, rc2 of inject_rcs: the literals of row idx
RsRoundConstants(idx) ==
  [l \in Lanes |-> from_str_vartime(ROUND_CONSTANTS_RS[idx + 1][l])]

\* the forward SubBytes without the increment of the offset
RsSbox_offset_kept ==
  /\ InRescueRound
  /\ step = "sb"
  /\ LET after_sb == [l \in Lanes |-> VPow5(HandleValue(advice, state, l))]
     IN  /\ sel' = Enable(sel, "s_sub_bytes", offset)
         /\ offset' = offset
         /\ advice' = AssignRow(advice, offset + 1, after_sb)
         /\ state' = [l \in Lanes |-> offset + 1]
  /\ step' = "mds1"
  /\ UNCHANGED <<kind, params, input, pc, i, constant_idx, fixed, gates, equality,
                 result, instance, verdict, deviation, other>>

\* rescue_round: forward SubBytes
RsSbox ==
  /\ InRescueRound
  /\ step = "sb"
  /\ LET after_sb == [l \in Lanes |-> VPow5(HandleValue(advice, state, l))]
     IN  /\ sel' = Enable(sel, "s_sub_bytes", offset)
         /\ offset' = offset + 1
         /\ advice' = AssignRow(advice, offset + 1, after_sb)
         /\ state' = [l \in Lanes |-> offset + 1]
  /\ step' = "mds1"
  /\ UNCHANGED <<kind, params, input, pc, i, constant_idx, fixed, gates, equality,
                 result, instance, verdict, deviation, other>>

\* mds_mul: called after each of the two S-boxes of a round
mds_mul ==
  /\ InRescueRound
  /\ step \in {"mds1", "mds2"}
  /\ LET s == [l \in Lanes |-> HandleValue(advice, state, l)]
     IN  /\ sel' = Enable(sel, "s_mds_mul", offset)
         /\ offset' = offset + 1
         /\ advice' = AssignRow(advice, offset + 1, after_ml(get_common_params, s))
         /\ state' = [l \in Lanes |-> offset + 1]
  /\ step' = IF step = "mds1" THEN "rc1" ELSE "rc2"
  /\ UNCHANGED <<kind, params, input, pc, i, constant_idx, fixed, gates, equality,
                 result, instance, verdict, deviation, other>>

\* inject_rcs with the selector enabled after the offset was incremented
inject_rcs_selector_on_output_row ==
  /\ InRescueRound
  /\ step \in {"rc1", "rc2"}
  /\ RsConstantsOk
  /\ LET rc == RsRoundConstants(InjectIdx)
         after_arc == [l \in Lanes |-> VAdd(HandleValue(advice, state, l), rc[l])]
     IN  /\ fixed' = AssignFixed(fixed, offset, rc)
         /\ sel' = Enable(sel, "s_add_rcs", offset + 1)
         /\ offset' = offset + 1
         /\ advice' = AssignRow(advice, offset + 1, after_arc)
         /\ state' = [l \in Lanes |-> offset + 1]
  /\ step' = IF step = "rc1" THEN "sbinv" ELSE "sb"
  /\ i' = IF step = "rc1" THEN i ELSE i + 1
  /\ UNCHANGED <<kind, params, input, pc, constant_idx, gates, equality, result,
                 instance, verdict, deviation, other>>

\* inject_rcs: called after each of the two mds_mul of a round; the second
\* call ends the round
inject_rcs ==
  /\ InRescueRound
  /\ step \in {"rc1", "rc2"}
  /\ RsConstantsOk
  /\ LET rc == RsRoundConstants(InjectIdx)
         after_arc == [l \in Lanes |-> VAdd(HandleValue(advice, state, l), rc[l])]
     IN  /\ fixed' = AssignFixed(fixed, offset, rc)
         /\ sel' = Enable(sel, "s_add_rcs", offset)
         /\ offset' = offset + 1
         /\ advice' = AssignRow(advice, offset + 1, after_arc)
         /\ state' = [l \in Lanes |-> offset + 1]
  /\ step' = IF step = "rc1" THEN "sbinv" ELSE "sb"
  /\ i' = IF step = "rc1" THEN i ELSE i + 1
  /\ UNCHANGED <<kind, params, input, pc, constant_idx, gates, equality, result,
                 instance, verdict, deviation, other>>

\* the inverse S-box row filled with the power alpha
RsSboxInv_alpha ==
  /\ InRescueRound
  /\ step = "sbinv"
  /\ LET after_sb_inv ==
           [l \in Lanes |-> VPowVartime(HandleValue(advice, state, l), params.alpha)]
     IN  /\ sel' = Enable(sel, "s_sub_bytes_inv", offset)
         /\ offset' = offset + 1
         /\ advice' = AssignRow(advice, offset + 1, after_sb_inv)
         /\ state' = [l \in Lanes |-> offset + 1]
  /\ step' = "mds2"
  /\ UNCHANGED <<kind, params, input, pc, i, constant_idx, fixed, gates, equality,
                 result, instance, verdict, deviation, other>>

\* rescue_round: inverse SubBytes, v.pow_vartime(alpha_inv)
RsSboxInv ==
  /\ InRescueRound
  /\ step = "sbinv"
  /\ LET after_sb_inv ==
           [l \in Lanes |-> VPowVartime(HandleValue(advice, state, l), params.alpha_inv)]
     IN  /\ sel' = Enable(sel, "s_sub_bytes_inv", offset)
         /\ offset' = offset + 1
         /\ advice' = AssignRow(advice, offset + 1, after_sb_inv)
         /\ state' = [l \in Lanes |-> offset + 1]
  /\ step' = "mds2"
  /\ UNCHANGED <<kind, params, input, pc, i, constant_idx, fixed, gates, equality,
                 result, instance, verdict, deviation, other>>

\* ------------------------------------------------------------------------
\* Faults, return, public outputs, verification
\* ------------------------------------------------------------------------
\* the round loop is left when the table is exhausted and permute returns
\* the handles it has
ConstantPanic_break ==
  /\ IF kind = "poseidon"
     THEN InPoseidonRound /\ step = "arc" /\ ~PsConstantsOk
     ELSE InRescueRound /\ step \in {"rc1", "rc2"} /\ ~RsConstantsOk
  /\ result' = state
  /\ pc' = "expose"
  /\ i' = 0
  /\ step' = "none"
  /\ UNCHANGED <<kind, params, input, offset, constant_idx, state, advice, fixed,
                 sel, gates, equality, instance, verdict, deviation, other>>

\* the index into a constant table is out of bounds, or unwrap() meets None:
\* the thread panics where the constants of the round are read
ConstantPanic ==
  /\ IF kind = "poseidon"
     THEN InPoseidonRound /\ step = "arc" /\ ~PsConstantsOk
     ELSE InRescueRound /\ step \in {"rc1", "rc2"} /\ ~RsConstantsOk
  /\ pc' = "panic"
  /\ UNCHANGED <<kind, params, input, i, step, offset, constant_idx, state, advice,
                 fixed, sel, gates, equality, result, instance, verdict, deviation, other>>

\* the round loops are over: permute returns the three handles
PermuteReturn ==
  /\ IF kind = "poseidon"
     THEN pc = "loop3" /\ i = LoopBound(pc)
     ELSE pc = "rounds" /\ i = params.rounds
  /\ result' = state
  /\ pc' = "expose"
  /\ i' = 0
  /\ step' = "none"
  /\ UNCHANGED <<kind, params, input, offset, constant_idx, state, advice, fixed,
                 sel, gates, equality, instance, verdict, deviation, other>>

\* every call of synthesize passes row 0
expose_as_public_row0 ==
  /\ pc = "expose"
  /\ equality' = equality \cup { << <<"advice", i + 1, result[i + 1]>>, <<"instance", 0, 0>> >> }
  /\ i' = i + 1
  /\ pc' = IF i = 2 THEN "synthesized" ELSE "expose"
  /\ UNCHANGED <<kind, params, input, step, offset, constant_idx, state, advice,
                 fixed, sel, gates, result, instance, verdict, deviation, other>>

\* synthesize: expose_as_public(result[i], i), constrain_instance
expose_as_public ==
  /\ pc = "expose"
  /\ equality' = equality \cup { << <<"advice", i + 1, result[i + 1]>>, <<"instance", 0, i>> >> }
  /\ i' = i + 1
  /\ pc' = IF i = 2 THEN "synthesized" ELSE "expose"
  /\ UNCHANGED <<kind, params, input, step, offset, constant_idx, state, advice,
                 fixed, sel, gates, result, instance, verdict, deviation, other>>

FinalRow == advice[Len(advice)]

\* main: the digest literals the Poseidon circuit is verified against
EXPECTED_PS ==
  <<
    <<1,8,4,5,6,6,5,8,7,6,3,3,4,9,7,5,7,3,4,1,0,1,4,0,5,8,6,2,2,2,0,9,6,5,9,7,6,6,1,0,0,6,7,3,7,6,1,4,4,9,6,0,0,5,6,6,5,5,0,8,2,1,9,8,7,2,9,5,7,8,6,3,4,6,3,7,8>>,
    <<3,7,0,6,8,2,5,1,7,7,4,8,8,7,5,0,9,8,8,5,0,6,3,6,2,5,7,0,1,8,1,5,0,2,6,1,3,8,3,5,3,0,4,1,1,5,2,7,3,5,2,2,9,4,7,6,4,7,9,0,5,5,6,2,0,9,6,2,2,6,8,6,0,1,7,9,6>>,
    <<2,6,7,6,3,1,5,7,7,0,2,1,4,1,5,2,8,9,3,7,9,0,4,1,9,1,3,2,9,6,6,4,8,5,9,1,7,4,5,8,4,7,9,8,8,1,7,2,5,1,7,8,8,8,5,2,1,0,1,9,4,7,5,3,7,7,5,9,6,7,8,8,2,2,2,9,8>>
  >>

\* main: the digest literals the Rescue-Prime circuit is verified against
EXPECTED_RS ==
  <<
    <<2,4,6,7,6,0,6,5,6,0,4,7,6,5,3,9,1,2,7,0,5,9,5,0,0,2,1,4,9,8,5,1,0,0,2,3,1,2,2,3,4,4,5,9,6,3,2,0,4,1,5,8,8,3,7,0,5,7,5,0,6,5,5,9,6,6,9,4,2,3,4,4,8,7,3,5,5>>,
    <<1,7,8,1,6,2,3,4,6,3,0,2,7,4,9,1,1,9,8,5,4,8,2,8,8,2,3,2,9,7,8,6,6,2,1,1,3,7,6,7,7,0,6,1,6,7,8,2,5,0,5,1,0,4,4,1,0,3,3,0,3,4,8,3,7,9,2,4,6,5,5,2,0,4,7,2,0>>,
    <<3,2,3,6,2,0,9,5,3,2,5,4,9,2,0,2,4,3,2,7,6,1,7,4,9,5,5,9,1,9,4,5,5,9,4,9,7,7,4,9,2,7,9,3,4,1,8,1,0,6,7,0,2,5,8,6,3,9,2,8,2,0,6,6,6,7,9,4,5,8,0,0,8,5,6,9,7>>
  >>

\* expected_ps / expected_rs: F::from_str_vartime(..).unwrap() of the literals
ExpectedPs == [l \in Lanes |-> from_str_vartime(EXPECTED_PS[l])]
ExpectedRs == [l \in Lanes |-> from_str_vartime(EXPECTED_RS[l])]

\* expected public values a caller may hand to MockProver::run: over Fr the
\* two triples of main and a triple that differs from the output in a word
ExpectedChoices ==
  IF OverFr
  THEN { ExpectedPs, ExpectedRs, [FinalRow EXCEPT ![1] = FAdd(@, FieldOne)] }
  ELSE { PermRef(kind, params, input), FinalRow, [FinalRow EXCEPT ![1] = FAdd(@, 1)] }

\* the prover is run on a circuit whose public slots are not all bound yet
Verify_before_bound ==
  /\ pc \in {"expose", "synthesized"}
  /\ input # [l \in Lanes |-> FieldUnknown]
  /\ \E expected \in ExpectedChoices :
       /\ instance' = expected
       /\ verdict' = IF MockVerify(advice, fixed, sel, gates, equality, expected,
                                  get_common_params)
                     THEN "ok" ELSE "failure"
  /\ pc' = "verified"
  /\ UNCHANGED <<kind, params, input, i, step, offset, constant_idx, state, advice,
                 fixed, sel, gates, equality, result, deviation, other>>

\* MockProver::run(k, &circuit, vec![expected]) and prover.verify()
Verify ==
  /\ pc = "synthesized"
  /\ input # [l \in Lanes |-> FieldUnknown]
  /\ \E expected \in ExpectedChoices :
       /\ instance' = expected
       /\ verdict' = IF MockVerify(advice, fixed, sel, gates, equality, expected,
                                  get_common_params)
                     THEN "ok" ELSE "failure"
  /\ pc' = "verified"
  /\ UNCHANGED <<kind, params, input, i, step, offset, constant_idx, state, advice,
                 fixed, sel, gates, equality, result, deviation, other>>

\* ------------------------------------------------------------------------
\* Faults of the backend (Result::Err of region / layouter calls)
\* ------------------------------------------------------------------------
\* a cell no call has assigned
Unassigned == -3

\* the generator is about to run a step that calls the backend for a row
Generating ==
  \/ pc = "configured"
  \/ InPoseidonRound /\ (step = "arc" => PsConstantsOk)
  \/ InRescueRound /\ (step \in {"rc1", "rc2"} => RsConstantsOk)

\* values of the three handles
HandleValues == [l \in Lanes |-> HandleValue(advice, state, l)]

\* the backend calls of the step the generator is at, in the order of the
\* source: assign_fixed on the three constant columns (rc), Selector::enable
\* (selector), assign_advice on the three state columns (vals on row arow)
StepWrites ==
  IF pc = "configured"
  THEN [rc |-> <<>>, selector |-> "", arow |-> 0, vals |-> input]
  ELSE IF kind = "poseidon"
  THEN CASE step = "arc" ->
              [rc |-> PsRoundConstants(constant_idx), selector |-> "s_add_rcs",
               arow |-> offset + 1,
               vals |-> [l \in Lanes |->
                            VAdd(HandleValues[l], PsRoundConstants(constant_idx)[l])]]
         [] step = "sbox" /\ full_round(pc) ->
              [rc |-> <<>>, selector |-> "s_sub_bytes_full", arow |-> offset + 1,
               vals |-> [l \in Lanes |-> VPow5(HandleValues[l])]]
         [] step = "sbox" /\ ~full_round(pc) ->
              [rc |-> <<>>, selector |-> "s_sub_bytes_partial", arow |-> offset + 1,
               vals |-> <<VPow5(HandleValues[1]), HandleValues[2], HandleValues[3]>>]
         [] step = "mds" ->
              [rc |-> <<>>, selector |-> "s_mds_mul", arow |-> offset + 1,
               vals |-> after_ml(get_common_params, HandleValues)]
  ELSE CASE step = "sb" ->
              [rc |-> <<>>, selector |-> "s_sub_bytes", arow |-> offset + 1,
               vals |-> [l \in Lanes |-> VPow5(HandleValues[l])]]
         [] step \in {"mds1", "mds2"} ->
              [rc |-> <<>>, selector |-> "s_mds_mul", arow |-> offset + 1,
               vals |-> after_ml(get_common_params, HandleValues)]
         [] step \in {"rc1", "rc2"} ->
              [rc |-> RsRoundConstants(InjectIdx), selector |-> "s_add_rcs",
               arow |-> offset + 1,
               vals |-> [l \in Lanes |->
                            VAdd(HandleValues[l], RsRoundConstants(InjectIdx)[l])]]
         [] step = "sbinv" ->
              [rc |-> <<>>, selector |-> "s_sub_bytes_inv", arow |-> offset + 1,
               vals |-> [l \in Lanes |-> VPowVartime(HandleValues[l], params.alpha_inv)]]

\* number of backend calls of the step
NumCalls(w) == Len(w.rc) + (IF w.selector = "" THEN 0 ELSE 1) + 3

\* a row of which the first n cells have been assigned
PartialRow(vals, n) == [l \in Lanes |-> IF l <= n THEN vals[l] ELSE Unassigned]

\* the Err is dropped and the generator goes on from where it is
Propagate_dropped(p) == p

\* the ? after every backend call: an Err leaves the closure, assign_region,
\* permute and synthesize at once
Propagate(p) == "error"

\* a backend call returns Err: the calls of the step before it have taken
\* effect, the failing call and the calls after it have not
BackendFault ==
  \/ /\ Generating
     /\ LET w == StepWrites
            nf == Len(w.rc)
            ne == IF w.selector = "" THEN 0 ELSE 1
        IN  \E k \in 0 .. NumCalls(w) - 1 :
              /\ fixed' = IF nf > 0 /\ k >= 1
                          THEN AssignFixed(fixed, offset,
                                           PartialRow(w.rc, IF k < nf THEN k ELSE nf))
                          ELSE fixed
              /\ sel' = IF ne = 1 /\ k >= nf + 1 THEN Enable(sel, w.selector, offset)
                        ELSE sel
              /\ advice' = IF k - nf - ne >= 1
                           THEN AssignRow(advice, w.arow, PartialRow(w.vals, k - nf - ne))
                           ELSE advice
     /\ pc' = Propagate(pc)
     /\ UNCHANGED <<kind, params, input, i, step, offset, constant_idx, state, gates,
                    equality, result, instance, verdict, deviation, other>>
  \/ /\ pc = "expose"
     /\ pc' = Propagate(pc)
     /\ UNCHANGED <<kind, params, input, i, step, offset, constant_idx, state, advice,
                    fixed, sel, gates, equality, result, instance, verdict, deviation, other>>

\* main: MockProver::run(..).unwrap() on the Err synthesize returned
RunUnwrap ==
  /\ pc = "error"
  /\ pc' = "panic"
  /\ UNCHANGED <<kind, params, input, i, step, offset, constant_idx, state, advice,
                 fixed, sel, gates, equality, result, instance, verdict, deviation, other>>

\* ------------------------------------------------------------------------
\* Several runs: a second run of the same circuit, and the two pipelines of
\* main run side by side
\* ------------------------------------------------------------------------
\* everything a run owns: the circuit struct, the chip configuration, the
\* locals of permute, the cells of its prover
Context ==
  [kind |-> kind,
   params |-> params,
   input |-> input,
   pc |-> pc,
   i |-> i,
   step |-> step,
   offset |-> offset,
   constant_idx |-> constant_idx,
   state |-> state,
   advice |-> advice,
   fixed |-> fixed,
   sel |-> sel,
   gates |-> gates,
   equality |-> equality,
   result |-> result,
   instance |-> instance,
   verdict |-> verdict,
   deviation |-> deviation]

\* a pipeline before its first step: the circuit struct as main builds it
StartContext(k, p, x) ==
  [kind |-> k, params |-> p, input |-> x, pc |-> "start", i |-> 0, step |-> "none",
   offset |-> 0, constant_idx |-> 0, state |-> <<>>, advice |-> <<>>, fixed |-> <<>>,
   sel |-> <<>>, gates |-> {}, equality |-> {}, result |-> <<>>, instance |-> <<>>,
   verdict |-> "none", deviation |-> NoDeviation]

\* the cursor into the constants is a static shared by the pipelines
Restore_shared_cursor(c) ==
  /\ kind' = c.kind
  /\ params' = c.params
  /\ input' = c.input
  /\ pc' = c.pc
  /\ i' = c.i
  /\ step' = c.step
  /\ offset' = c.offset
  /\ constant_idx' = constant_idx
  /\ state' = c.state
  /\ advice' = c.advice
  /\ fixed' = c.fixed
  /\ sel' = c.sel
  /\ gates' = c.gates
  /\ equality' = c.equality
  /\ result' = c.result
  /\ instance' = c.instance
  /\ verdict' = c.verdict
  /\ deviation' = c.deviation

\* the pipeline that runs next continues with what it owns
Restore(c) ==
  /\ kind' = c.kind
  /\ params' = c.params
  /\ input' = c.input
  /\ pc' = c.pc
  /\ i' = c.i
  /\ step' = c.step
  /\ offset' = c.offset
  /\ constant_idx' = c.constant_idx
  /\ state' = c.state
  /\ advice' = c.advice
  /\ fixed' = c.fixed
  /\ sel' = c.sel
  /\ gates' = c.gates
  /\ equality' = c.equality
  /\ result' = c.result
  /\ instance' = c.instance
  /\ verdict' = c.verdict
  /\ deviation' = c.deviation

\* the run is put aside as it stands and the same circuit is run again
RunAgain ==
  /\ other = NoOther
  /\ pc # "start"
  /\ other' = [done |-> <<Context>>, susp |-> <<>>]
  /\ Restore(StartContext(kind, params, input))

\* a pipeline that ran alone has ended: its final state is kept, and the
\* other circuit runs; the ended circuit waits to be run once more
SoloFinished ==
  /\ other.susp # <<>>
  /\ Len(other.done) < 2
  /\ pc \in {"verified", "panic"}
  /\ other' = [done |-> Append(other.done, Context),
               susp |-> <<StartContext(kind, params, input)>>]
  /\ Restore(other.susp[1])

\* both circuits have run alone; from now on the scheduler may switch
\* between the two pipelines before any step
Switch ==
  /\ other.susp # <<>>
  /\ Len(other.done) = 2
  /\ other' = [other EXCEPT !.susp = <<Context>>]
  /\ Restore(other.susp[1])

\* ------------------------------------------------------------------------
\* A dishonest prover: the advice cells are the prover's to fill
\* ------------------------------------------------------------------------
\* one advice cell of the finished trace is overwritten, all others kept
Tamper(row, lane, v) ==
  /\ pc = "synthesized"
  /\ input # without_witnesses
  /\ deviation = NoDeviation
  /\ row + 1 \in DOMAIN advice
  /\ advice[row + 1][lane] # v
  /\ advice' = [advice EXCEPT ![row + 1][lane] = v]
  /\ deviation' = [act |-> "tamper", row |-> row, lane |-> lane]
  /\ UNCHANGED <<kind, params, input, pc, i, step, offset, constant_idx, state,
                 fixed, sel, gates, equality, result, instance, verdict, other>>

\* the row an enabled gate forces after row cur; a cell no gate constrains
\* keeps the value it had
GateNext(s, cur, old, rc, mds) ==
  IF "s_add_rcs" \in s THEN [l \in Lanes |-> FAdd(cur[l], rc[l])]
  ELSE IF "s_mds_mul" \in s THEN [k \in Lanes |-> MdsLane(mds, k, cur)]
  ELSE IF "s_sub_bytes_full" \in s \/ "s_sub_bytes" \in s THEN [l \in Lanes |-> Quintic(cur[l])]
  ELSE IF "s_sub_bytes_partial" \in s THEN <<Quintic(cur[1]), old[2], old[3]>>
  ELSE IF "s_sub_bytes_inv" \in s /\ \A l \in Lanes : \E y \in F : Quintic(y) = cur[l]
       THEN [l \in Lanes |-> CHOOSE y \in F : Quintic(y) = cur[l]]
  ELSE old

\* rows after row r recomputed so that the gates enabled from r on hold
RECURSIVE Rederive(_, _)
Rederive(adv, r) ==
  IF r + 2 \notin DOMAIN adv THEN adv
  ELSE CHOOSE out \in
         { Rederive(nxt, r + 1) :
             nxt \in { [adv EXCEPT ![r + 2] =
                          GateNext(SelAt(sel, r), adv[r + 1], adv[r + 2],
                                   FixedAt(fixed, r), get_common_params)] } } : TRUE

\* one advice cell is overwritten and the rows below it are filled again
\* from the gates
Forge(row, lane, v) ==
  /\ pc = "synthesized"
  /\ input # without_witnesses
  /\ deviation = NoDeviation
  /\ row + 1 \in DOMAIN advice
  /\ advice[row + 1][lane] # v
  /\ advice' = Rederive([advice EXCEPT ![row + 1][lane] = v], row)
  /\ deviation' = [act |-> "forge", row |-> row, lane |-> lane]
  /\ UNCHANGED <<kind, params, input, pc, i, step, offset, constant_idx, state,
                 fixed, sel, gates, equality, result, instance, verdict, other>>

\* ------------------------------------------------------------------------
\* Specifications
\* ------------------------------------------------------------------------
Pipeline ==
  \/ Configure
  \/ PermuteBegin
  \/ PsArc
  \/ PsSboxFull
  \/ PsSboxPartial
  \/ PsMds
  \/ PsNextLoop
  \/ RsSbox
  \/ mds_mul
  \/ inject_rcs
  \/ RsSboxInv
  \/ ConstantPanic
  \/ PermuteReturn
  \/ expose_as_public
  \/ Verify

Next == Pipeline

Spec == Init /\ [][Next]_vars

\* the pipeline with a prover that may deviate from the witness generator
NextProver ==
  \/ Pipeline
  \/ \E row \in 0 .. Len(advice) - 1, lane \in Lanes, v \in F : Tamper(row, lane, v)
  \/ \E row \in 0 .. Len(advice) - 1, lane \in Lanes, v \in F : Forge(row, lane, v)

SpecProver == InitMain /\ [][NextProver]_vars

\* the pipeline over every specification a chip accepts
SpecChip == InitChip /\ [][Next]_vars

\* the same, and Rescue-Prime on initial states that range over the field
SpecSbox == InitSbox /\ [][Next]_vars

\* the pipeline on round counts around those of the program
SpecTable == InitTable /\ [][Next]_vars

\* main over Fr
SpecFr == InitFr /\ [][Next]_vars

\* the pipeline over a backend whose calls may fail
NextFault ==
  \/ Pipeline
  \/ BackendFault
  \/ RunUnwrap

SpecFault == InitMain /\ [][NextFault]_vars

\* a circuit is run, and then run again
NextTwice ==
  \/ Pipeline
  \/ RunAgain

SpecTwice == InitMain /\ [][NextTwice]_vars

\* each of the two pipelines runs alone, then both run under an arbitrary
\* scheduler
NextPair ==
  \/ Pipeline
  \/ SoloFinished
  \/ Switch

SpecPair == InitPair /\ [][NextPair]_vars

\* ------------------------------------------------------------------------
\* Properties
\* ------------------------------------------------------------------------
\* the values held by the three cells permute returned
ResultValues == [l \in Lanes |-> advice[result[l] + 1][l]]

Returned == pc \in {"expose", "synthesized", "verified"}

\* C1: for every concrete initial state, the three cells returned by
\* permute hold the permutation evaluated directly on that state
C1_PermuteIsDirectEvaluation ==
  (Returned /\ input # without_witnesses /\ deviation = NoDeviation)
    => ResultValues = PermRef(kind, params, input)

\* a Poseidon run with full and partial rounds has returned
C1_Witness ==
  /\ pc = "synthesized"
  /\ kind = "poseidon"
  /\ params.full_rounds = 2
  /\ params.partial_rounds = 2
  /\ input = MainInput
  /\ ResultValues = PermRef(kind, params, input)

\* rows holding the ARC output of a partial round whose S-box output row
\* (the next row) has been produced
PartialArcRows ==
  {r \in DOMAIN sel : "s_sub_bytes_partial" \in sel[r] /\ r + 2 \in DOMAIN advice}

\* lanes a partial round passes through (lane 1 and lane 2 of the source)
PassLanes == {2, 3}

CopyConstrained(c1, c2) == \E e \in equality : {e[1], e[2]} = {c1, c2}

\* C2: in an accepted Poseidon trace every pass-through cell of a partial
\* round is tied by a copy constraint to the cell of the same lane on the
\* ARC output row, and holds the same value
C2_PassThroughBoundByCopy ==
  verdict = "ok" =>
    \A r \in PartialArcRows : \A l \in PassLanes :
      /\ CopyConstrained(<<"advice", l, r>>, <<"advice", l, r + 1>>)
      /\ advice[r + 2][l] = advice[r + 1][l]

\* the consequence of C2 alone: no accepted trace has a pass-through cell
\* that differs from its source (refuted by a prover that fills the
\* pass-through cell freely and derives the rows below it from the gates)
PassThroughAgreesWhenAccepted ==
  verdict = "ok" =>
    \A r \in PartialArcRows : \A l \in PassLanes : advice[r + 2][l] = advice[r + 1][l]

\* the overwritten cell is a pass-through cell of a partial round
DeviationOnPassThrough ==
  /\ kind = "poseidon"
  /\ deviation.lane \in PassLanes
  /\ deviation.row - 1 \in PartialArcRows

\* C3: an honest Poseidon trace in which one pass-through cell was
\* overwritten, every other cell kept, is rejected whatever public values
\* it is verified against
C3_TamperedPassThroughRejected ==
  (pc = "verified" /\ deviation.act = "tamper" /\ DeviationOnPassThrough)
    => verdict = "failure"

\* a trace with one overwritten pass-through cell was verified against its
\* own final row and rejected
C3_Witness ==
  /\ pc = "verified"
  /\ deviation.act = "tamper"
  /\ DeviationOnPassThrough
  /\ instance = FinalRow
  /\ verdict = "failure"

\* ------------------------------------------------------------------------
\* Round schedules read off the trace
\* ------------------------------------------------------------------------
\* rows on which one of the two Poseidon S-box selectors is enabled
SboxRows ==
  {r \in DOMAIN sel : sel[r] \cap {"s_sub_bytes_full", "s_sub_bytes_partial"} # {}}

\* the k-th smallest element of a set of rows
NthRow(S, k) == CHOOSE r \in S : Cardinality({q \in S : q < r}) = k - 1

\* kinds of the rounds started so far, in the order of their rows
RoundKinds ==
  [k \in 1 .. Cardinality(SboxRows) |->
     IF "s_sub_bytes_full" \in sel[NthRow(SboxRows, k)] THEN "full" ELSE "partial"]

\* the schedule a specification declares
ScheduleRef(p) ==
  [k \in 1 .. PoseidonRoundCount(p) |->
     IF k <= p.full_rounds \div 2 THEN "full"
     ELSE IF k <= p.full_rounds \div 2 + p.partial_rounds THEN "partial"
     ELSE "full"]

\* C4: the Poseidon generator runs full_rounds/2 full rounds, then
\* partial_rounds partial rounds, then full_rounds/2 full rounds: the rounds
\* started so far are always a prefix of that schedule, and the whole of it
\* once permute has returned
C4_PoseidonScheduleOrder ==
  kind = "poseidon" =>
    /\ Len(RoundKinds) <= PoseidonRoundCount(params)
    /\ RoundKinds = SubSeq(ScheduleRef(params), 1, Len(RoundKinds))
    /\ Returned => Len(RoundKinds) = PoseidonRoundCount(params)

\* a run with two partial rounds between two full rounds has returned
C4_Witness ==
  /\ kind = "poseidon"
  /\ Returned
  /\ params.full_rounds = 2
  /\ RoundKinds = <<"full", "partial", "partial", "full">>

\* Poseidon rounds completed so far
PoseidonRoundsDone ==
  IF pc = "loop1" THEN i
  ELSE IF pc = "loop2" THEN params.full_rounds \div 2 + i
  ELSE IF pc = "loop3" THEN params.full_rounds \div 2 + params.partial_rounds + i
  ELSE PoseidonRoundCount(params)

\* rows the round in progress has added
RowsInRound == IF step = "sbox" THEN 1 ELSE IF step = "mds" THEN 2 ELSE 0

\* C5: round k of a Poseidon run has the ARC selector and the table entries
\* 3k, 3k+1, 3k+2 on row 3k, the S-box selector of its kind on row 3k+1 and
\* the MDS selector on row 3k+2, and its three new rows hold the ARC, S-box
\* and MDS images of the rows before them; R completed rounds leave 1 + 3R
\* rows and a cursor of 3R
C5_PoseidonRoundLayout ==
  (kind = "poseidon" /\ pc \in {"loop1", "loop2", "loop3", "expose", "synthesized", "verified"})
    => /\ Len(advice) = 1 + 3 * PoseidonRoundsDone + RowsInRound
       /\ constant_idx = 3 * PoseidonRoundsDone + (IF RowsInRound > 0 THEN 3 ELSE 0)
       /\ \A k \in 0 .. PoseidonRoundsDone - 1 :
            /\ sel[3 * k] = {"s_add_rcs"}
            /\ fixed[3 * k] = [l \in Lanes |-> from_str_vartime(ROUND_CONSTANTS_PS[3 * k + l])]
            /\ sel[3 * k + 1] = {IF IsFullRound(params, k) THEN "s_sub_bytes_full"
                                 ELSE "s_sub_bytes_partial"}
            /\ sel[3 * k + 2] = {"s_mds_mul"}
            /\ input # without_witnesses =>
                 /\ ARC_Gate(advice[3 * k + 1], advice[3 * k + 2], fixed[3 * k])
                 /\ IF IsFullRound(params, k)
                    THEN PS_full_sbox_gate(advice[3 * k + 2], advice[3 * k + 3])
                    ELSE /\ PS_partial_sbox_gate(advice[3 * k + 2], advice[3 * k + 3])
                         /\ \A l \in {2, 3} : advice[3 * k + 3][l] = advice[3 * k + 2][l]
                 /\ ML_gate(get_common_params, advice[3 * k + 3], advice[3 * k + 4])

\* three rounds of a Poseidon run are complete
C5_Witness ==
  /\ kind = "poseidon"
  /\ pc = "loop3"
  /\ step = "arc"
  /\ PoseidonRoundsDone = 3
  /\ Len(advice) = 10
  /\ constant_idx = 9

\* Rescue-Prime rounds completed so far
RescueRoundsDone == IF pc = "rounds" THEN i ELSE params.rounds

\* rows the Rescue-Prime round in progress has added
RescueRowsInRound ==
  CASE step = "mds1" -> 1
    [] step = "rc1" -> 2
    [] step = "sbinv" -> 3
    [] step = "mds2" -> 4
    [] step = "rc2" -> 5
    [] OTHER -> 0

\* C6: round r of a Rescue-Prime run has, on rows 6r .. 6r+5, the selectors
\* forward S-box, MDS, ARC, inverse S-box, MDS, ARC, with table row 2r on
\* the first ARC row and table row 2r+1 on the second, each row holding the
\* image of the row before it; `rounds` completed rounds leave
\* 1 + 6*rounds rows
C6_RescueRoundLayout ==
  (kind = "rescue" /\ pc \in {"rounds", "expose", "synthesized", "verified"})
    => /\ Len(advice) = 1 + 6 * RescueRoundsDone + RescueRowsInRound
       /\ \A r \in 0 .. RescueRoundsDone - 1 :
            /\ sel[6 * r] = {"s_sub_bytes"}
            /\ sel[6 * r + 1] = {"s_mds_mul"}
            /\ sel[6 * r + 2] = {"s_add_rcs"}
            /\ sel[6 * r + 3] = {"s_sub_bytes_inv"}
            /\ sel[6 * r + 4] = {"s_mds_mul"}
            /\ sel[6 * r + 5] = {"s_add_rcs"}
            /\ fixed[6 * r + 2] =
                 [l \in Lanes |-> from_str_vartime(ROUND_CONSTANTS_RS[2 * r + 1][l])]
            /\ fixed[6 * r + 5] =
                 [l \in Lanes |-> from_str_vartime(ROUND_CONSTANTS_RS[2 * r + 2][l])]
            /\ input # without_witnesses =>
                 /\ RS_sbox_gate(advice[6 * r + 1], advice[6 * r + 2])
                 /\ ML_gate(get_common_params, advice[6 * r + 2], advice[6 * r + 3])
                 /\ ARC_Gate(advice[6 * r + 3], advice[6 * r + 4], fixed[6 * r + 2])
                 /\ RS_sbox_inv_gate(advice[6 * r + 4], advice[6 * r + 5])
                 /\ ML_gate(get_common_params, advice[6 * r + 5], advice[6 * r + 6])
                 /\ ARC_Gate(advice[6 * r + 6], advice[6 * r + 7], fixed[6 * r + 5])
       /\ Returned => DOMAIN fixed = {6 * r + 2 : r \in 0 .. params.rounds - 1}
                                       \cup {6 * r + 5 : r \in 0 .. params.rounds - 1}

\* a Rescue-Prime run of four rounds has returned with 25 rows
C6_Witness ==
  /\ kind = "rescue"
  /\ pc = "synthesized"
  /\ params.rounds = 4
  /\ Len(advice) = 25
  /\ Cardinality(DOMAIN fixed) = 8

\* ------------------------------------------------------------------------
\* Circuit shape
\* ------------------------------------------------------------------------
\* what a run leaves besides the values of the advice cells
TraceShape ==
  [rows |-> Len(advice), selectors |-> sel, constants |-> fixed, bindings |-> equality]

\* public-slot bindings of a trace whose last row is row last
BindingsRef(last) ==
  { << <<"advice", l, last>>, <<"instance", 0, l - 1>> >> : l \in Lanes }

\* the shape a Poseidon specification prescribes
PoseidonShapeRef(p) ==
  LET R == PoseidonRoundCount(p)
  IN  [rows |-> 1 + 3 * R,
       selectors |->
         [r \in 0 .. 3 * R - 1 |->
            IF r % 3 = 0 THEN {"s_add_rcs"}
            ELSE IF r % 3 = 2 THEN {"s_mds_mul"}
            ELSE IF IsFullRound(p, r \div 3) THEN {"s_sub_bytes_full"}
            ELSE {"s_sub_bytes_partial"}],
       constants |->
         [r \in {3 * k : k \in 0 .. R - 1} |->
            [l \in Lanes |-> from_str_vartime(ROUND_CONSTANTS_PS[r + l])]],
       bindings |-> BindingsRef(3 * R)]

\* the shape a Rescue-Prime specification prescribes
RescueShapeRef(p) ==
  [rows |-> 1 + 6 * p.rounds,
   selectors |->
     [r \in 0 .. 6 * p.rounds - 1 |->
        CASE r % 6 = 0 -> {"s_sub_bytes"}
          [] r % 6 = 3 -> {"s_sub_bytes_inv"}
          [] r % 3 = 1 -> {"s_mds_mul"}
          [] r % 3 = 2 -> {"s_add_rcs"}],
   constants |->
     [r \in {q \in 0 .. 6 * p.rounds - 1 : q % 3 = 2} |->
        [l \in Lanes |-> from_str_vartime(ROUND_CONSTANTS_RS[(r + 1) \div 3][l])]],
   bindings |-> BindingsRef(6 * p.rounds)]

ShapeRef(k, p) == IF k = "poseidon" THEN PoseidonShapeRef(p) ELSE RescueShapeRef(p)

\* C7: the shape of a synthesized circuit (row count, selector of each row,
\* constants of each row, public-slot bindings) is the one its
\* specification prescribes, whatever the initial state and whether it is
\* known or a placeholder; two runs of one specification have one shape
C7_ShapeDependsOnSpecificationOnly ==
  pc \in {"synthesized", "verified"} => TraceShape = ShapeRef(kind, params)

\* a run on placeholder values was synthesized with the prescribed shape
C7_Witness ==
  /\ pc = "synthesized"
  /\ input = without_witnesses
  /\ kind = "poseidon"
  /\ params.full_rounds = 2
  /\ params.partial_rounds = 1
  /\ TraceShape = ShapeRef(kind, params)

\* ------------------------------------------------------------------------
\* Validation of a specification
\* ------------------------------------------------------------------------
\* number of constants in the table of a construction
TableLength(k) ==
  IF k = "poseidon" THEN Len(ROUND_CONSTANTS_PS) ELSE 3 * Len(ROUND_CONSTANTS_RS)

\* number of constants the round counts of a specification call for
ConstantsNeeded(k, p) ==
  IF k = "poseidon" THEN 3 * (p.full_rounds + p.partial_rounds) ELSE 3 * 2 * p.rounds

\* C8: a specification whose constant table is not as long as its round
\* counts require is rejected at construction: no gate is attached and no
\* row assigned for it
C8_TableLengthValidated ==
  (gates # {} \/ advice # <<>>) => TableLength(kind) = ConstantsNeeded(kind, params)

\* C9: for Rescue-Prime, alpha * alpha_inv = 1 (mod p-1) is checked before
\* any gate is attached: no gate is attached for a pair that violates it
C9_AlphaPairValidated ==
  (kind = "rescue" /\ gates # {}) => (params.alpha * params.alpha_inv) % (P - 1) = 1

\* C10: a configuration-time fault (table length mismatch, malformed
\* literal, invalid exponent pair) is raised before any trace cell is
\* assigned
C10_ConfigFaultBeforeWitness ==
  pc = "panic" => advice = <<>>

\* ------------------------------------------------------------------------
\* The constant cursor
\* ------------------------------------------------------------------------
\* Poseidon rounds whose constants have been read
PoseidonRoundsBegun ==
  IF step \in {"sbox", "mds"} THEN PoseidonRoundsDone + 1 ELSE PoseidonRoundsDone

\* C11: for a Poseidon specification whose table has 3 * (full_rounds +
\* partial_rounds) entries, the cursor is 3 times the number of rounds begun,
\* round k has read entries 3k, 3k+1, 3k+2, and the cursor equals the table
\* length when the schedule has ended
C11_CursorEndsAtTableLength ==
  (/\ kind = "poseidon"
   /\ Len(ROUND_CONSTANTS_PS) = 3 * (params.full_rounds + params.partial_rounds)
   /\ advice # <<>>) =>
    /\ constant_idx = 3 * PoseidonRoundsBegun
    /\ \A k \in 0 .. PoseidonRoundsBegun - 1 :
         FixedAt(fixed, 3 * k) = PsRoundConstants(3 * k)
    /\ Returned => constant_idx = Len(ROUND_CONSTANTS_PS)

\* constants the rounds a specification executes read
ConstantsRead(k, p) ==
  IF k = "poseidon" THEN 3 * PoseidonRoundCount(p) ELSE 3 * 2 * p.rounds

\* C12: when the schedule reads more constants than the table holds, the
\* generator panics at the first index past the end of the table (every
\* entry before it consumed), nothing runs after the panic and no verdict
\* is ever produced for that trace
C12_TableExhaustedIsFatal ==
  /\ ConstantsRead(kind, params) > TableLength(kind) =>
       /\ ~Returned
       /\ verdict = "none"
  /\ pc = "panic" =>
       /\ ConstantsRead(kind, params) > TableLength(kind)
       /\ IF kind = "poseidon"
          THEN /\ constant_idx = Len(ROUND_CONSTANTS_PS)
               /\ DOMAIN fixed = {3 * k : k \in 0 .. (Len(ROUND_CONSTANTS_PS) \div 3) - 1}
          ELSE /\ InjectIdx = Len(ROUND_CONSTANTS_RS)
               /\ Cardinality(DOMAIN fixed) = Len(ROUND_CONSTANTS_RS)
       /\ verdict = "none"
       /\ ~ENABLED Next

C12_Witness ==
  /\ pc = "panic"
  /\ kind = "poseidon"
  /\ params.full_rounds = FULL_ROUNDS
  /\ params.partial_rounds = PARTIAL_ROUNDS + 1
  /\ constant_idx = Len(ROUND_CONSTANTS_PS)

\* ------------------------------------------------------------------------
\* Faults of the backend
\* ------------------------------------------------------------------------
\* every step the generator has made wrote what StepWrites lists for it
StepWritesAreTheSteps ==
  [][(Generating /\ pc' \notin {"error", "panic"}) =>
       /\ advice' = AssignRow(advice, StepWrites.arow, StepWrites.vals)
       /\ fixed' = IF StepWrites.rc = <<>> THEN fixed
                   ELSE AssignFixed(fixed, offset, StepWrites.rc)
       /\ sel' = IF StepWrites.selector = "" THEN sel
                 ELSE Enable(sel, StepWrites.selector, offset)]_vars

\* every call made so far has succeeded: rows 0 .. offset fully assigned,
\* one selector on each row before offset, no constant cell left out
TraceWhole ==
  /\ advice # <<>> =>
       /\ Len(advice) = offset + 1
       /\ DOMAIN sel = 0 .. offset - 1
  /\ \A r \in DOMAIN advice : \A l \in Lanes : advice[r][l] # Unassigned
  /\ \A r \in DOMAIN fixed : \A l \in Lanes : fixed[r][l] # Unassigned

\* C13: a generator that is still running, or has finished, has had none
\* of its backend calls fail (a fault is not passed over); once a call has
\* returned a fault no cell is assigned, no selector enabled, no public
\* slot bound and no verdict produced: the only step left is the caller's
\* unwrap of the error
C13_FaultPropagatesAtOnce ==
  /\ [](pc \notin {"error", "panic"} => TraceWhole)
  /\ [](pc = "error" => verdict = "none" /\ ~ENABLED Pipeline /\ ~ENABLED BackendFault)
  /\ [][pc = "error" =>
         /\ pc' = "panic"
         /\ UNCHANGED <<advice, fixed, sel, equality, result, instance, verdict>>]_vars

\* the second advice cell of a partial-round S-box row failed to assign
C13_Witness ==
  /\ pc = "error"
  /\ kind = "poseidon"
  /\ step = "sbox"
  /\ Len(advice) = offset + 2
  /\ "s_sub_bytes_partial" \in SelAt(sel, offset)
  /\ advice[offset + 2][1] # Unassigned
  /\ advice[offset + 2][2] = Unassigned

\* ------------------------------------------------------------------------
\* Public outputs
\* ------------------------------------------------------------------------
\* rows of a finished schedule, the initial row included
ScheduleRows(k, p) ==
  IF k = "poseidon" THEN 1 + 3 * PoseidonRoundCount(p) ELSE 1 + 6 * p.rounds

\* public slots bound so far
SlotsBound == IF pc = "expose" THEN i ELSE 3

\* C14: no public slot is bound before the round schedule has finished;
\* afterwards lane l of the last row is bound to slot l, one binding per
\* slot, in the order 0, 1, 2; the verifier accepts exactly when the
\* expected values are the values of the last row
C14_PublicOutputBinding ==
  /\ ~Returned => equality = {}
  /\ Returned =>
       /\ Len(advice) = ScheduleRows(kind, params)
       /\ \A l \in Lanes : result[l] = Len(advice) - 1
       /\ equality = { << <<"advice", l, Len(advice) - 1>>, <<"instance", 0, l - 1>> >> :
                         l \in 1 .. SlotsBound }
       /\ \A slot \in 0 .. 2 :
            Cardinality({e \in equality : e[2] = <<"instance", 0, slot>>})
              = IF slot < SlotsBound THEN 1 ELSE 0
  /\ pc = "verified" => (verdict = "ok" <=> instance = FinalRow)

\* a Rescue-Prime run of two rounds was verified once against the values of
\* its last row and once against other values
C14_Witness ==
  /\ pc = "verified"
  /\ kind = "rescue"
  /\ params.rounds = 2
  /\ Cardinality(equality) = 3
  /\ verdict = "failure"
  /\ instance # FinalRow

\* ------------------------------------------------------------------------
\* Order of the pipeline
\* ------------------------------------------------------------------------
\* build, witness generation, public-output binding, verification
PhaseRank(p) ==
  CASE p = "start" -> 0
    [] p = "configured" -> 1
    [] p \in {"loop1", "loop2", "loop3", "rounds"} -> 2
    [] p = "expose" -> 3
    [] p = "synthesized" -> 4
    [] p = "verified" -> 5
    [] OTHER -> 6

\* C16: the phases follow one another in the order build, witness
\* generation, public-output binding, verification: a step stays in its
\* phase or moves to the next one (or faults), never back, so no phase is
\* entered twice; witness rows exist only after the build, bindings only
\* after the last row, a verdict only after the three bindings; nothing
\* runs after the verdict
C16_PipelineOrder ==
  /\ [][\/ PhaseRank(pc') = PhaseRank(pc)
        \/ PhaseRank(pc') = PhaseRank(pc) + 1
        \/ pc' = "panic"]_vars
  /\ [](advice # <<>> => gates # {} /\ PhaseRank(pc) >= 2)
  /\ [](equality # {} => PhaseRank(pc) >= 3 /\ Len(advice) = ScheduleRows(kind, params))
  /\ [](verdict # "none" =>
          /\ pc = "verified"
          /\ Len(advice) = ScheduleRows(kind, params)
          /\ Cardinality(equality) = 3)
  /\ [](pc = "verified" => verdict # "none" /\ ~ENABLED Next)

\* a Poseidon run with full and partial rounds reached its verdict
C16_Witness ==
  /\ pc = "verified"
  /\ kind = "poseidon"
  /\ params.full_rounds = 2
  /\ params.partial_rounds = 2
  /\ verdict = "ok"

\* ------------------------------------------------------------------------
\* The generated trace and the gates
\* ------------------------------------------------------------------------
\* C20: for every known initial state, at every point of the generation,
\* every row with a selector enabled has a next row and the two rows (with
\* the constants of the row) satisfy the relation of that selector's gate
C20_GeneratedTraceSatisfiesGates ==
  (input # without_witnesses /\ pc # "start") =>
    /\ GatesSatisfied(advice, fixed, sel, gates, get_common_params)
    /\ \A r \in DOMAIN sel : Cardinality(sel[r]) = 1

\* a finished Rescue-Prime trace with inverse S-box rows
C20_Witness ==
  /\ Returned
  /\ kind = "rescue"
  /\ params.rounds = 3
  /\ input = MainInput
  /\ Cardinality({r \in DOMAIN sel : "s_sub_bytes_inv" \in sel[r]}) = 3
  /\ GatesSatisfied(advice, fixed, sel, gates, get_common_params)

\* ------------------------------------------------------------------------
\* Determinism and independence of the runs
\* ------------------------------------------------------------------------
\* two runs are at the same point, and were handed the same expected values
SamePoint(c, d) ==
  /\ c.kind = d.kind
  /\ c.params = d.params
  /\ c.input = d.input
  /\ c.pc = d.pc
  /\ c.i = d.i
  /\ c.step = d.step
  /\ c.instance = d.instance

PairContexts == {Context} \cup {other.susp[k] : k \in DOMAIN other.susp}

\* C17: once each pipeline has run alone, under every interleaving of the
\* steps of the two pipelines each one ends with the trace, bindings and
\* verdict of its run alone (the same expected values given)
C17_PipelinesAreIndependent ==
  Len(other.done) = 2 =>
    \A c \in PairContexts : \A k \in DOMAIN other.done :
      SamePoint(c, other.done[k]) => c = other.done[k]

\* both pipelines ended under the scheduler as they ended alone, the
\* Rescue-Prime pipeline suspended after the Poseidon pipeline started
C17_Witness ==
  /\ Len(other.done) = 2
  /\ kind = "poseidon"
  /\ params.full_rounds = 2
  /\ params.partial_rounds = 1
  /\ pc = "verified"
  /\ Context = other.done[1]
  /\ other.susp[1] = other.done[2]
  /\ other.susp[1].params.rounds = 1
  /\ other.susp[1].pc = "verified"

\* the specification of PoseidonCircuit::configure, over Fr
PoseidonOfMain ==
  /\ kind = "poseidon"
  /\ params = InFr(PoseidonParams(FULL_ROUNDS, PARTIAL_ROUNDS, BigFrom(ALPHA)))
  /\ input = MainInputFr

\* C18: over Fr, the Poseidon circuit of main (initial state (0, 1, 2),
\* full_rounds = 8, partial_rounds = 57, alpha = 5, the 195 constants, the
\* shared matrix) ends on the triple expected_ps of main, the prover
\* accepts that triple and rejects every other one it is given
C18_PoseidonMainVector ==
  (PoseidonOfMain /\ pc = "verified") =>
    /\ FinalRow = ExpectedPs
    /\ verdict = "ok" <=> instance = ExpectedPs

\* the Poseidon circuit of main was verified against expected_ps
C18_Witness ==
  /\ PoseidonOfMain
  /\ Len(advice) = 3 * (FULL_ROUNDS + PARTIAL_ROUNDS) + 1
  /\ pc = "verified"
  /\ instance = ExpectedPs
  /\ verdict = "ok"

\* the Rescue-Prime specification with the exponents of the header comment
\* (alpha = 3, alpha_inv = 12297829382473034371), over Fr
RescueAsDocumented ==
  /\ kind = "rescue"
  /\ params = InFr(RescueParams(ROUNDS, BigFrom(DOC_ALPHA_RS),
                                BigUintFromStr(DOC_ALPHA_INV_LITERAL)))
  /\ input = MainInputFr

\* the Rescue-Prime specification of RescueCircuit::configure, over Fr
RescueOfMain ==
  /\ kind = "rescue"
  /\ params = InFr(RescueParams(ROUNDS, BigFrom(ALPHA), BigUintFromStr(ALPHA_INV_LITERAL)))
  /\ input = MainInputFr

\* with the exponents RescueCircuit::configure passes, the circuit ends on
\* expected_rs and the prover accepts that triple and no other
RescueOfMainVector ==
  (RescueOfMain /\ pc = "verified") =>
    /\ FinalRow = ExpectedRs
    /\ verdict = "ok" <=> instance = ExpectedRs

\* C19: over Fr, the Rescue-Prime circuit on the initial state (0, 1, 2)
\* with rounds = 4, the documented alpha and alpha_inv, the 8 x 3 constants
\* and the shared matrix ends on the triple expected_rs of main, the prover
\* accepts that triple and rejects every other one it is given
C19_RescueMainVector ==
  (RescueAsDocumented /\ pc = "verified") =>
    /\ FinalRow = ExpectedRs
    /\ verdict = "ok" <=> instance = ExpectedRs


\* ------------------------------------------------------------------------
\* The S-boxes
\* ------------------------------------------------------------------------
\* alpha * alpha_inv = 1 (mod p - 1)
InversePair == (params.alpha * params.alpha_inv) % (P - 1) = 1

\* the rows on which the inverse S-box selector is enabled and whose output
\* row is written
InverseSboxRows ==
  {r \in DOMAIN sel : "s_sub_bytes_inv" \in sel[r] /\ r + 2 \in DOMAIN advice}

\* C21: for an inverse pair (alpha, alpha_inv), on every inverse S-box row
\* the generator wrote y = x^alpha_inv, y satisfies the relation of the gate
\* x = y^alpha, and no other field element does
C21_InverseSboxEquivalence ==
  (kind = "rescue" /\ input # without_witnesses /\ InversePair) =>
    \A r \in InverseSboxRows : \A l \in Lanes :
      LET x == advice[r + 1][l]
          y == advice[r + 2][l]
      IN  /\ y = RefPow(x, params.alpha_inv)
          /\ RS_sbox_inv_gate(advice[r + 1], advice[r + 2])
          /\ \A z \in F : (x = RefPow(z, params.alpha)) <=> (z = y)

\* an inverse S-box row of a run with the second inverse of 5, on values
\* that the S-box moves
C21_Witness ==
  /\ kind = "rescue"
  /\ InversePair
  /\ params.alpha_inv = ALPHA_INV + (P - 1)
  /\ \E r \in InverseSboxRows :
       /\ \A l \in Lanes : advice[r + 1][l] # advice[r + 2][l]
       /\ advice[r + 1][1] = P - 1 - advice[r + 1][2]


\* the selectors of the forward S-box gates
ForwardSboxSelectors == {"s_sub_bytes_full", "s_sub_bytes_partial", "s_sub_bytes"}

\* the rows on which a forward S-box selector is enabled and whose output
\* row is written
ForwardSboxRows ==
  {r \in DOMAIN sel : sel[r] \cap ForwardSboxSelectors # {} /\ r + 2 \in DOMAIN advice}

\* the lanes the forward S-box gate of row r applies to
SboxLanes(r) == IF "s_sub_bytes_partial" \in sel[r] THEN {1} ELSE Lanes

\* the forward S-box gate enabled on row r, as a relation on lane l
ForwardGateOnLane(r, l, cur, next) ==
  IF "s_sub_bytes_partial" \in sel[r] THEN PS_partial_sbox_gate(cur, next)
  ELSE FSub(next[l], Quintic(cur[l])) = FieldZero

\* C22: for alpha in {3, 5}, on every forward S-box row and every lane the
\* gate applies to, the generator wrote cur^alpha and the relation of the
\* gate accepts cur^alpha and no other value
C22_ForwardSboxUsesAlpha ==
  (input # without_witnesses /\ params.alpha \in {3, 5}) =>
    \A r \in ForwardSboxRows : \A l \in SboxLanes(r) :
      /\ advice[r + 2][l] = RefPow(advice[r + 1][l], params.alpha)
      /\ \A z \in F :
           ForwardGateOnLane(r, l, advice[r + 1], [advice[r + 2] EXCEPT ![l] = z])
             <=> z = RefPow(advice[r + 1][l], params.alpha)


\* ------------------------------------------------------------------------
\* Rows, selectors and cells of the trace
\* ------------------------------------------------------------------------
\* the selector of the phase row r belongs to
PhaseSelector(k, p, r) ==
  IF k = "poseidon"
  THEN CASE r % 3 = 0 -> "s_add_rcs"
         [] r % 3 = 1 -> IF IsFullRound(p, r \div 3) THEN "s_sub_bytes_full"
                         ELSE "s_sub_bytes_partial"
         [] r % 3 = 2 -> "s_mds_mul"
  ELSE CASE r % 6 = 0 -> "s_sub_bytes"
         [] r % 6 = 3 -> "s_sub_bytes_inv"
         [] r % 3 = 1 -> "s_mds_mul"
         [] r % 3 = 2 -> "s_add_rcs"

\* C23: at every point of a run, on every row that has a selector enabled
\* exactly one selector is enabled, the one of the row's phase (Poseidon:
\* ARC, full or partial S-box, MDS; Rescue-Prime: S-box, MDS, ARC, inverse
\* S-box, MDS, ARC)
C23_OneSelectorPerRow ==
  \A r \in DOMAIN sel :
    /\ Cardinality(sel[r]) = 1
    /\ sel[r] = {PhaseSelector(kind, params, r)}

\* a Poseidon run is inside a partial round that follows a full round
C23_Witness ==
  /\ kind = "poseidon"
  /\ pc = "loop2"
  /\ step = "mds"
  /\ sel = <<>> @@ (0 :> {"s_add_rcs"}) @@ (1 :> {"s_sub_bytes_full"}) @@ (2 :> {"s_mds_mul"})
              @@ (3 :> {"s_add_rcs"}) @@ (4 :> {"s_sub_bytes_partial"})


\* the row a step writes after a row holding cur, when it enables the
\* selectors s and the constants of the row are rc
RowImage(s, cur, rc) ==
  IF "s_add_rcs" \in s THEN [l \in Lanes |-> VAdd(cur[l], rc[l])]
  ELSE IF "s_mds_mul" \in s THEN after_ml(get_common_params, cur)
  ELSE IF "s_sub_bytes_partial" \in s THEN <<VPow5(cur[1]), cur[2], cur[3]>>
  ELSE IF "s_sub_bytes_inv" \in s
  THEN [l \in Lanes |-> VPowVartime(cur[l], params.alpha_inv)]
  ELSE [l \in Lanes |-> VPow5(cur[l])]

\* the cells the handles of permute point at hold the values of the last row
HandlesHoldLastRow ==
  (pc \in {"loop1", "loop2", "loop3", "rounds"}) =>
    \A l \in Lanes : HandleValue(advice, state, l) = advice[Len(advice)][l]

\* a step that writes a row writes the row after the last one, leaves the
\* rows above it as they are and computes it from the last row alone
RowStep ==
  /\ offset' >= offset
  /\ (advice' # advice \/ offset' # offset) =>
       /\ Len(advice') = Len(advice) + 1
       /\ SubSeq(advice', 1, Len(advice)) = advice
       /\ offset' = Len(advice)
       /\ IF advice = <<>>
          THEN advice'[1] = input
          ELSE /\ offset' = offset + 1
               /\ advice'[Len(advice')] =
                    RowImage(SelAt(sel', offset), advice[Len(advice)], FixedAt(fixed', offset))

\* C24: rows are produced in increasing order, the row index starting at 0
\* and growing by exactly one with every row, and row r + 1 is computed
\* from the values of row r, the round constants and the MDS matrix
C24_RowsInOrder == []HandlesHoldLastRow /\ [][RowStep]_vars

\* a partial round was completed: its MDS row was computed while the
\* handles of the two pass-through lanes pointed at the row before the last
C24_Witness ==
  /\ kind = "poseidon"
  /\ input = MainInput
  /\ params.full_rounds = 2
  /\ pc = "loop2"
  /\ i = 1
  /\ step = "arc"
  /\ offset = 6
  /\ Len(advice) = 7


\* ------------------------------------------------------------------------
\* C25
\* ------------------------------------------------------------------------
ForwardSboxGates == {"PS_partial_sbox_gate", "PS_full_sbox_gate", "RS_sbox_gate"}

\* C25: every polynomial of a forward S-box gate the circuit has attached
\* is the selector times (next - cur^alpha), has degree alpha + 1, which is
\* 6, and this degree does not exceed the maximum gate degree of the backend
C25_SboxGateDegree ==
  \A g \in gates :
    g.name \in ForwardSboxGates =>
      \A j \in DOMAIN GatePolynomials(g, get_common_params) :
        /\ Degree(GatePolynomials(g, get_common_params)[j]) = params.alpha + 1
        /\ Degree(GatePolynomials(g, get_common_params)[j]) = 6
        /\ Degree(GatePolynomials(g, get_common_params)[j]) <= MaxGateDegree

\* the Poseidon circuit of main was verified with its full and its partial
\* S-box gate attached
C25_Witness ==
  /\ kind = "poseidon"
  /\ pc = "verified"
  /\ params.alpha = 5
  /\ params.full_rounds = FULL_ROUNDS
  /\ \E g \in gates : g.name = "PS_full_sbox_gate"
  /\ \E g \in gates : g.name = "PS_partial_sbox_gate"


\* ------------------------------------------------------------------------
\* C26
\* ------------------------------------------------------------------------
\* the values the constraints of the gates gs accept in lane l of the row
\* after row c, rc being the fixed cells of the row of c
AcceptedCells(c, l, gs, rc, mds) ==
  { v \in F : \A g \in gs : ConstraintHolds(g, l, mds, c, [k \in Lanes |-> v], rc) }

\* the rows that the gates gs accept after one of the rows prev
AcceptedAfter(prev, gs, rc, mds) ==
  UNION { AcceptedCells(c, 1, gs, rc, mds) \X AcceptedCells(c, 2, gs, rc, mds)
            \X AcceptedCells(c, 3, gs, rc, mds) : c \in prev }

\* names of the gates whose selector is enabled on row r
EnabledGates(r) == { g.name : g \in { h \in gates : h.selector \in SelAt(sel, r) } }

\* the rows an assignment of the state cells can hold in row r when it
\* holds the initial state in row 0 and satisfies every gate enabled on the
\* rows 0 .. r - 1
RECURSIVE AcceptedRows(_, _)
AcceptedRows(r, mds) ==
  IF r = 0 THEN {input}
  ELSE CHOOSE out \in
         { AcceptedAfter(prev, gs, rc, mds) :
             prev \in {AcceptedRows(r - 1, mds)}, gs \in {EnabledGates(r - 1)},
             rc \in {FixedAt(fixed, r - 1)} } : TRUE

\* the final rows of the assignments that agree with the initial state on
\* row 0 and satisfy every enabled gate
AcceptedFinalRows ==
  CHOOSE out \in { AcceptedRows(Len(advice) - 1, m) : m \in {get_common_params} } : TRUE

\* C26: Rescue-Prime soundness: every assignment of the state cells that
\* agrees with the generated trace on row 0 and satisfies every enabled
\* gate has the final row of the generated trace, which is the permutation
\* of the initial state: one output triple is accepted per initial state
C26_RescueSoundness ==
  (kind = "rescue" /\ pc = "synthesized" /\ input # without_witnesses) =>
    /\ advice[1] = input
    /\ AcceptedFinalRows = {advice[Len(advice)]}
    /\ advice[Len(advice)] = PermRef(kind, params, input)

\* a Rescue-Prime trace of two rounds on an initial state other than that
\* of main was generated
C26_Witness ==
  /\ kind = "rescue"
  /\ pc = "synthesized"
  /\ params.rounds = 2
  /\ input = <<2, 0, 1>>
  /\ Len(advice) = 13
  /\ \A r \in 0 .. 11 : SelAt(sel, r) # {}


\* ------------------------------------------------------------------------
\* C27
\* ------------------------------------------------------------------------
\* the three state cells of row r (counted from 0) are assigned
RowAssigned(r) ==
  /\ r + 1 \in DOMAIN advice
  /\ \A l \in Lanes : advice[r + 1][l] # Unassigned

\* C27: in a completed trace every row with a selector enabled is an
\* assigned row followed by a row whose three state cells are assigned,
\* and the last row has no selector enabled: no active gate reads a state
\* cell that was not assigned
C27_ActiveGatesReadAssignedCells ==
  Returned =>
    /\ \A r \in DOMAIN sel :
         sel[r] # {} => RowAssigned(r) /\ RowAssigned(r + 1)
    /\ SelAt(sel, Len(advice) - 1) = {}
    /\ \A r \in DOMAIN sel : r < Len(advice) - 1

\* a Rescue-Prime trace of four rounds was completed over a backend whose
\* calls may fail: 24 rows hold a selector, the last row holds none
C27_Witness ==
  /\ kind = "rescue"
  /\ pc = "synthesized"
  /\ params.rounds = ROUNDS
  /\ Len(advice) = 25
  /\ \A r \in 0 .. 23 : SelAt(sel, r) # {}


\* ------------------------------------------------------------------------
\* C28
\* ------------------------------------------------------------------------
\* the cells the next step assigns, row offset + 1 of the state columns and
\* row offset of the constant columns, have not been assigned; so far
\* every row 0 .. offset of the state columns has been
WriteTargetsFresh ==
  /\ pc \in {"start", "configured"} => advice = <<>> /\ DOMAIN fixed = {}
  /\ (InPoseidonRound \/ InRescueRound \/ Returned) =>
       /\ Len(advice) = offset + 1
       /\ \A r \in DOMAIN fixed : r < offset

\* a step that assigns state cells assigns the three cells of one row that
\* was not assigned and leaves every assigned row alone; a step that assigns
\* constant cells assigns those of one row that had none
AssignsNewCells ==
  /\ advice' # advice =>
       /\ Len(advice') = Len(advice) + 1
       /\ \A r \in DOMAIN advice : advice'[r] = advice[r]
  /\ fixed' # fixed =>
       /\ offset \notin DOMAIN fixed
       /\ DOMAIN fixed' = DOMAIN fixed \cup {offset}
       /\ \A r \in DOMAIN fixed : fixed'[r] = fixed[r]

\* C28: during one permutation no cell is assigned twice: every state cell
\* of the rows 0 .. last is assigned exactly once and every constant cell
\* at most once
C28_NoCellAssignedTwice == []WriteTargetsFresh /\ [][AssignsNewCells]_vars

\* the second round of a Rescue-Prime permutation is at its inverse S-box:
\* ten rows of state cells and three rows of constants have been assigned
C28_Witness ==
  /\ kind = "rescue"
  /\ pc = "rounds"
  /\ i = 1
  /\ step = "sbinv"
  /\ offset = 9
  /\ Len(advice) = 10
  /\ DOMAIN fixed = {2, 5, 8}


\* ------------------------------------------------------------------------
\* C29
\* ------------------------------------------------------------------------
\* rows on which the ARC selector is enabled
ArcRows == { r \in DOMAIN sel : "s_add_rcs" \in sel[r] }

\* the constant columns are assigned on the ARC rows and on no other row,
\* three cells on each
ConstantsOnArcRows ==
  pc \notin {"error", "panic"} =>
    /\ DOMAIN fixed = ArcRows
    /\ \A r \in DOMAIN fixed : \A l \in Lanes : fixed[r][l] # Unassigned

\* the three table entries the cursor of the generator points at
ConstantsAtCursor ==
  IF kind = "poseidon"
  THEN [l \in Lanes |-> from_str_vartime(ROUND_CONSTANTS_PS[constant_idx + l])]
  ELSE [l \in Lanes |->
          from_str_vartime(ROUND_CONSTANTS_RS[(IF step = "rc1" THEN 2 * i ELSE 2 * i + 1) + 1][l])]

\* a step that assigns constants or enables the ARC selector does both on
\* row offset, the row it computes the next row from, and the constants are
\* those at the cursor
ArcStep ==
  ((fixed' # fixed \/ ArcRows' # ArcRows) /\ pc' \notin {"error", "panic"}) =>
    /\ ArcRows' = ArcRows \cup {offset}
    /\ offset \notin ArcRows
    /\ offset \in DOMAIN fixed'
    /\ fixed'[offset] = ConstantsAtCursor
    /\ offset' = offset + 1

\* C29: the constant columns are assigned on exactly the rows on which the
\* ARC selector is enabled, with the three constants the cursor points at
\* when the row is produced: the ARC gate reads no unassigned constant
\* cell and no constant appears on a row of another gate
C29_ConstantsOnlyOnArcRows == []ConstantsOnArcRows /\ [][ArcStep]_vars

\* the third round of a Poseidon run has assigned its constants: entries
\* 6, 7 and 8 of the table on row 6
C29_Witness ==
  /\ kind = "poseidon"
  /\ step = "sbox"
  /\ constant_idx = 9
  /\ ArcRows = {0, 3, 6}
  /\ fixed[6] = [l \in Lanes |-> from_str_vartime(ROUND_CONSTANTS_PS[6 + l])]


\* ------------------------------------------------------------------------
\* C30
\* ------------------------------------------------------------------------
\* index of the last row of a finished schedule: 3 per Poseidon round, 6
\* per Rescue-Prime round
LastScheduleRow ==
  IF kind = "poseidon" THEN 3 * PoseidonRoundCount(params) ELSE 6 * params.rounds

\* C30: the three cells permute returns, which are the cells bound to the
\* public slots, are the state cells of the last assigned row, row 3 * R
\* for Poseidon and row 6 * rounds for Rescue-Prime; in a partial round the
\* handles of lanes 1 and 2 stay one row behind between the S-box and the
\* MDS step, and a schedule of no rounds returns the initial-state cells
C30_ReturnedCellsAreLastRow ==
  /\ (InPoseidonRound /\ step = "mds" /\ ~full_round(pc)) =>
       state = <<offset, offset - 1, offset - 1>>
  /\ Returned =>
       /\ Len(advice) - 1 = LastScheduleRow
       /\ result = [l \in Lanes |-> LastScheduleRow]
       /\ \A e \in equality : e[1] = <<"advice", e[2][3] + 1, result[e[2][3] + 1]>>
       /\ \A l \in Lanes : HandleValue(advice, result, l) = advice[Len(advice)][l]
       /\ LastScheduleRow = 0 => [l \in Lanes |-> HandleValue(advice, result, l)] = input

\* a Poseidon run whose rounds were all partial (full_rounds = 1, two
\* partial rounds) has bound the cells of row 6 to the public slots
C30_Witness ==
  /\ kind = "poseidon"
  /\ params.full_rounds = 1
  /\ params.partial_rounds = 2
  /\ pc = "synthesized"
  /\ result = <<6, 6, 6>>
  /\ Cardinality(equality) = 3
  /\ "s_sub_bytes_partial" \in SelAt(sel, 4)

==========================================================================
